---- MODULE Spec2Model ----
(***************************************************************************)
(* A model of the Bw-tree building block of src/src/bwtree/bwtree.h:       *)
(* the mapping table, the delta records, the append helper, the delta      *)
(* chain traverser with its free and consolidation handlers.               *)
(*                                                                         *)
(* Pointers are natural numbers, NULL is 0.  The debug build is modelled:  *)
(* a failed assert() stops the program (aborted # "none").                 *)
(***************************************************************************)
EXTENDS Integers, Sequences, FiniteSets, TLC

\* ------------------------------------------------------------------ bounds
\* Number of slots of the mapping table (template parameter TABLE_SIZE).
TABLE_SIZE == 2
\* Threads that use one mapping table concurrently.
NumThreads == 2
\* Pointer values the mapping-table clients store: 1..MaxPtr.
MaxPtr == 2

\* AppendHelper instances working concurrently.
NumHelpers == 2
\* Keys handed to the append helper: 1..MaxKey.
MaxKey == 2
\* Delta records one run allocates.
MaxDeltas == 2
\* the number of deltas in the chains that are traversed
MaxChain == 3

NULL == 0
Threads == 1..NumThreads
Helpers == 1..NumHelpers
Keys == 1..MaxKey
NodeIDs == 0..(TABLE_SIZE - 1)
\* Every value AllocateNodeID can read from next_slot in the model.
AllSlots == 0..TABLE_SIZE
PtrValues == 1..MaxPtr

VARIABLES
  mapping_table,   \* DefaultMappingTable::mapping_table, slot -> pointer
  next_slot,       \* DefaultMappingTable::next_slot
  thr,             \* per thread: position inside AllocateNodeID
  ret,             \* the value the most recent mapping-table call returned
  returned,        \* history: id -> number of AllocateNodeID calls that returned it
                   \* since construction/Reset
  verify_ret,      \* history: the three results of the last verify round
  call,            \* history: the base-node call made last (function, node, key);
                   \* on the mapping table, whether ReleaseNodeID has been called
  aborted,         \* "none", or the assert() that failed
  heap,            \* the allocated node records, by address (1..Len(heap))
  ah,              \* the AppendHelper instances: node_id, node_p
  installed,       \* history: per node id, the deltas whose CAS succeeded, oldest first
  lost,            \* history: per node id, the deltas a failed Append call returned
  walk,            \* a DeltaChainTraverser::Traverse call: position, node_p, the
                   \* handler's finished and next_p, the merge handlers' frames
  ct,              \* the DefaultConsolidator instance and the base it builds
  destroyed        \* history: the addresses handed to Destroy/DestroyDelta, in order

tableVars == <<mapping_table, next_slot>>
mtVars == <<thr, ret, returned, verify_ret, call>>
walkVars == <<walk, ct, destroyed>>
appVars == <<heap, ah, installed, lost, walk, ct, destroyed>>
vars == <<mapping_table, next_slot, thr, ret, returned, verify_ret, call, aborted,
          heap, ah, installed, lost, walk, ct, destroyed>>

\* No traversal is under way, no consolidator exists.
NoWalk == [pc |-> "none"]
NoConsolidator == [made |-> FALSE]
\* No base-node function has been called.
NoCall == [op |-> "none"]

\* ------------------------------------------------------- mapping table code
\* std::atomic::fetch_add(1): the value before, and the value after.
FetchAddBroken(ns) == [old |-> ns, new |-> ns]
FetchAddTwo(ns) == [old |-> ns, new |-> ns + 2]
FetchAdd(ns) == [old |-> ns, new |-> ns + 1]

\* compare_exchange_strong on slot node_id.
CASBlind(mt, node_id, old_value, new_value) ==
  [ret |-> TRUE, table |-> [mt EXCEPT ![node_id] = new_value]]
CAS(mt, node_id, old_value, new_value) ==
  IF mt[node_id] = old_value
    THEN [ret |-> TRUE, table |-> [mt EXCEPT ![node_id] = new_value]]
    ELSE [ret |-> FALSE, table |-> mt]

At(mt, node_id) == mt[node_id]

ReleaseNodeIDKeep(mt, node_id) == mt
ReleaseNodeID(mt, node_id) == [mt EXCEPT ![node_id] = NULL]

\* assert(slot < TABLE_SIZE) in AllocateNodeID.
SlotInTableAlways(slot) == TRUE
SlotInTable(slot) == slot < TABLE_SIZE

\* mapping_table[slot] = node_p in AllocateNodeID.
StoreFirst(mt, slot, node_p) == [mt EXCEPT ![0] = node_p]
Store(mt, slot, node_p) == [mt EXCEPT ![slot] = node_p]

\* DefaultMappingTable(): next_slot{FIRST_NODE_ID}; the slots of a fresh
\* (or Reset) table are zero.
FIRST_NODE_ID == 0
EmptyTable == [i \in NodeIDs |-> NULL]

IdleThread == [pc |-> "idle", node_p |-> NULL, slot |-> 0]
AllIdle == \A t \in Threads : thr[t].pc = "idle"

InitTable ==
  /\ mapping_table = EmptyTable
  /\ next_slot = FIRST_NODE_ID
  /\ thr = [t \in Threads |-> IdleThread]
  /\ ret = 0
  /\ returned = [i \in AllSlots |-> 0]
  /\ verify_ret = <<>>
  /\ call = NoCall
  /\ aborted = "none"
  /\ walk = NoWalk
  /\ ct = NoConsolidator
  /\ destroyed = <<>>
  /\ heap = <<>>
  /\ ah = <<>>
  /\ installed = <<>>
  /\ lost = <<>>

\* AllocateNodeID, first step: slot = next_slot.fetch_add(1).
AllocFetch(t, p) ==
  /\ aborted = "none"
  /\ thr[t].pc = "idle"
  /\ next_slot <= TABLE_SIZE
  /\ LET fa == FetchAdd(next_slot) IN
       /\ next_slot' = fa.new
       /\ thr' = [thr EXCEPT ![t] = [pc |-> "alloc_store", node_p |-> p,
                                     slot |-> fa.old]]
  /\ UNCHANGED <<mapping_table, ret, returned, verify_ret, call, aborted>>
  /\ UNCHANGED appVars

\* AllocateNodeID, second step: assert(slot < TABLE_SIZE);
\* mapping_table[slot] = node_p; return slot.
AllocStore(t) ==
  /\ aborted = "none"
  /\ thr[t].pc = "alloc_store"
  /\ IF SlotInTable(thr[t].slot)
       THEN /\ mapping_table' = Store(mapping_table, thr[t].slot, thr[t].node_p)
            /\ thr' = [thr EXCEPT ![t] = IdleThread]
            /\ ret' = thr[t].slot
            /\ returned' = [returned EXCEPT ![thr[t].slot] = @ + 1]
            /\ UNCHANGED aborted
       ELSE /\ aborted' = "AllocateNodeID: slot < TABLE_SIZE"
            /\ UNCHANGED <<mapping_table, thr, ret, returned>>
  /\ UNCHANGED <<next_slot, verify_ret, call>>
  /\ UNCHANGED appVars

\* CAS(node_id, old_value, new_value) by thread t; the result is kept in ret.
TableCAS(t, node_id, old_value, new_value) ==
  /\ aborted = "none"
  /\ thr[t].pc = "idle"
  /\ LET r == CAS(mapping_table, node_id, old_value, new_value) IN
       /\ mapping_table' = r.table
       /\ ret' = IF r.ret THEN 1 ELSE 0
  /\ UNCHANGED <<next_slot, thr, returned, verify_ret, call, aborted>>
  /\ UNCHANGED appVars

\* ReleaseNodeID(node_id) by thread t.
TableRelease(t, node_id) ==
  /\ aborted = "none"
  /\ thr[t].pc = "idle"
  /\ mapping_table' = ReleaseNodeID(mapping_table, node_id)
  /\ call' = [op |-> "ReleaseNodeID"]
  /\ UNCHANGED <<next_slot, thr, ret, returned, verify_ret, aborted>>
  /\ UNCHANGED appVars

\* Reset(): memset of the slots and next_slot = 0.  It is a test helper that
\* the test calls while no other thread runs.  The histories start afresh.
TableReset ==
  /\ aborted = "none"
  /\ AllIdle
  /\ mapping_table' = EmptyTable
  /\ next_slot' = 0
  /\ returned' = [i \in AllSlots |-> 0]
  /\ verify_ret' = <<>>
  /\ call' = NoCall
  /\ UNCHANGED <<thr, ret, aborted>>
  /\ UNCHANGED appVars

\* One round of the test's verify lambda on slot i, run while no other
\* thread is active: node_p = At(i); CAS(i, node_p, node_p + 1);
\* CAS(i, node_p, node_p + 1); CAS(i, node_p + 1, node_p).
Verify(i) ==
  /\ aborted = "none"
  /\ AllIdle
  /\ LET node_p == At(mapping_table, i)
         r1 == CAS(mapping_table, i, node_p, node_p + 1)
         r2 == CAS(r1.table, i, node_p, node_p + 1)
         r3 == CAS(r2.table, i, node_p + 1, node_p)
     IN /\ mapping_table' = r3.table
        /\ verify_ret' = <<r1.ret, r2.ret, r3.ret>>
  /\ UNCHANGED <<next_slot, thr, ret, returned, call, aborted>>
  /\ UNCHANGED appVars

NextTable ==
  \/ \E t \in Threads, p \in PtrValues : AllocFetch(t, p)
  \/ \E t \in Threads : AllocStore(t)
  \/ \E t \in Threads, i \in NodeIDs, o, n \in 0..MaxPtr : TableCAS(t, i, o, n)
  \/ \E t \in Threads, i \in NodeIDs : TableRelease(t, i)
  \/ TableReset
  \/ \E i \in NodeIDs : Verify(i)

SpecTable == InitTable /\ [][NextTable]_vars

\* ------------------------------------------------------------ node records
\* BoundKey::GetInf() and BoundKey::Get(key).
GetInf == [key |-> 0, inf |-> TRUE]
Get(k) == [key |-> k, inf |-> FALSE]

\* A BoundKey pointer names the object that holds the bound key: the low_key
\* or high_key member of a base node, or the t1 member of a split delta.
NullKeyP == [node |-> NULL, fld |-> "null"]
KeyP(n, f) == [node |-> n, fld |-> f]

\* NodeHeightType is uint16_t: heights are kept modulo 2^16.
HeightMod == 65536

\* NodeSizeType is uint32_t.  A 32-bit unsigned value is held as its two
\* 16-bit halves (the model checker's own integers are 32 bits wide and
\* signed), with addition and subtraction modulo 2^32.
Half == 65536
U32(n) == [hi |-> (n \div Half) % Half, lo |-> n % Half]
U32Add(a, b) ==
  [hi |-> (a.hi + b.hi + ((a.lo + b.lo) \div Half)) % Half,
   lo |-> (a.lo + b.lo) % Half]
U32Sub(a, b) ==
  [hi |-> (a.hi - b.hi - (IF a.lo < b.lo THEN 1 ELSE 0) + 2 * Half) % Half,
   lo |-> (a.lo - b.lo + Half) % Half]

LeafTypes == {"LeafBase", "LeafInsert", "LeafDelete", "LeafSplit", "LeafRemove", "LeafMerge"}
BaseTypes == {"LeafBase", "InnerBase"}
MergeTypes == {"LeafMerge", "InnerMerge"}
SplitTypes == {"LeafSplit", "InnerSplit"}
RemoveTypes == {"LeafRemove", "InnerRemove"}
InsertTypes == {"LeafInsert", "InnerInsert"}
DeleteTypes == {"LeafDelete", "InnerDelete"}

\* DeltaNode constructor: the NodeBase header, next_node_p and t1..t6.
DeltaNode(ptype, pheight, psize, plow_key_p, phigh_key_p, pnext_node_p, pt1, pt2, pt3, pt4, pt5, pt6) ==
  [type |-> ptype, height |-> pheight % HeightMod, size |-> psize,
   low_key_p |-> plow_key_p, high_key_p |-> phigh_key_p,
   next_node_p |-> pnext_node_p,
   t1 |-> pt1, t2 |-> pt2, t3 |-> pt3, t4 |-> pt4, t5 |-> pt5, t6 |-> pt6,
   low_key |-> GetInf, high_key |-> GetInf, keys |-> <<>>, vals |-> <<>>]

\* DefaultBaseNode::Get and the ExtendedNodeBase constructor for the node at
\* address self: height 0, the header's key pointers refer to the node's own
\* low_key and high_key members.
BaseNode(self, ptype, psize, plow_key, phigh_key, pkeys, pvals) ==
  [type |-> ptype, height |-> 0, size |-> U32(psize),
   low_key_p |-> KeyP(self, "low"), high_key_p |-> KeyP(self, "high"),
   next_node_p |-> NULL,
   t1 |-> 0, t2 |-> 0, t3 |-> 0, t4 |-> 0, t5 |-> 0, t6 |-> 0,
   low_key |-> plow_key, high_key |-> phigh_key, keys |-> pkeys, vals |-> pvals]

\* *key_p for a BoundKey pointer.
Deref(hp, kp) ==
  CASE kp.fld = "low" -> hp[kp.node].low_key
    [] kp.fld = "high" -> hp[kp.node].high_key
    [] kp.fld = "t1" -> hp[kp.node].t1

\* BoundKey::IsInf.
IsInf(bk) == bk.inf

\* The comparison operators of BoundKey with a key: assert(!inf), then the
\* comparison of the stored key.  The outcome of a call is the assertion that
\* failed, or "none" and the value returned.
Compared(bk, what, value) ==
  IF bk.inf THEN [failed |-> "BoundKey::operator" \o what \o ": !inf", ret |-> FALSE]
            ELSE [failed |-> "none", ret |-> value]
BoundKeyLT(bk, k) == Compared(bk, "<", bk.key < k)
BoundKeyGT(bk, k) == Compared(bk, ">", bk.key > k)
BoundKeyEQ(bk, k) == Compared(bk, "==", bk.key = k)
BoundKeyNE(bk, k) == Compared(bk, "!=", bk.key # k)
BoundKeyGE(bk, k) == Compared(bk, ">=", bk.key >= k)
BoundKeyLENoAssert(bk, k) == [failed |-> "none", ret |-> bk.key <= k]
BoundKeyLE(bk, k) == Compared(bk, "<=", bk.key <= k)

\* The result of a && whose left operand is the boolean a and whose right
\* operand is the call with the outcome o: o is evaluated only when a holds.
AndThen(a, o) == IF a THEN o ELSE [failed |-> "none", ret |-> FALSE]

\* KeyLargerThanNode and KeySmallerThanNode as calls, which can fail the
\* assertion of the BoundKey operator they use, and the values they return.
KeyLargerThanNodeUnguarded(hp, n, key) == BoundKeyLE(Deref(hp, hp[n].high_key_p), key)
KeyLargerThanNodeCall(hp, n, key) ==
  LET hk == Deref(hp, hp[n].high_key_p) IN AndThen(IsInf(hk) = FALSE, BoundKeyLE(hk, key))
KeySmallerThanNodeNever(hp, n, key) == [failed |-> "none", ret |-> FALSE]
KeySmallerThanNodeCall(hp, n, key) ==
  LET lk == Deref(hp, hp[n].low_key_p) IN AndThen(IsInf(lk) = FALSE, BoundKeyGT(lk, key))
KeyLargerThanNode(hp, n, key) == KeyLargerThanNodeCall(hp, n, key).ret
KeySmallerThanNode(hp, n, key) == KeySmallerThanNodeCall(hp, n, key).ret
KeyInNodeAny(hp, n, key) == TRUE
KeyInNode(hp, n, key) ==
  KeyLargerThanNode(hp, n, key) = FALSE /\ KeySmallerThanNode(hp, n, key) = FALSE

\* NodeBase::GetBase: the address of the low key minus LOW_KEY_OFFSET, which
\* is the base node when the low-key pointer refers to a base's low_key.
GetBaseOfHighKey(hp, n) == hp[n].high_key_p.node
GetBase(hp, n) == hp[n].low_key_p.node

\* SetSplitHighKey: the header's high key pointer refers to the delta's t1.
SetSplitHighKeyNot(hp, d) == hp
SetSplitHighKeyOfNext(hp, d) == [hp EXCEPT ![hp[d].next_node_p].high_key_p = KeyP(d, "t1")]
SetSplitHighKeyKeep(hp, d) == [hp EXCEPT ![d].high_key_p = hp[hp[d].next_node_p].high_key_p]
SetSplitHighKey(hp, d) == [hp EXCEPT ![d].high_key_p = KeyP(d, "t1")]

\* The nodes a traversal can reach from n: through next pointers and through
\* the sibling pointers of merge deltas.
RECURSIVE ReachFrom(_, _)
ReachFrom(hp, n) ==
  IF n = NULL THEN {}
  ELSE {n} \cup ReachFrom(hp, hp[n].next_node_p)
           \cup (IF hp[n].type \in MergeTypes THEN ReachFrom(hp, hp[n].t3) ELSE {})

\* The deltas from n down to its base through next pointers alone, head first.
RECURSIVE ChainOf(_, _)
ChainOf(hp, n) ==
  IF n = NULL \/ hp[n].type \in BaseTypes THEN <<>>
  ELSE <<n>> \o ChainOf(hp, hp[n].next_node_p)

\* Sequence helpers.
Reverse(s) == [k \in 1..Len(s) |-> s[Len(s) + 1 - k]]
SeqRange(s) == {s[k] : k \in DOMAIN s}
SlotReach(hp, mt) == UNION {ReachFrom(hp, At(mt, i)) : i \in NodeIDs}

\* ------------------------------------------------------------ append helper
\* The delta each Append function allocates above node_p.
LeafInsertDeltaKeepSize(hp, node_p, key, value) ==
  DeltaNode("LeafInsert", hp[node_p].height + 1, hp[node_p].size,
            hp[node_p].low_key_p, hp[node_p].high_key_p, node_p,
            key, value, 0, 0, 0, 0)
LeafInsertDelta(hp, node_p, key, value) ==
  DeltaNode("LeafInsert", hp[node_p].height + 1, U32Add(hp[node_p].size, U32(1)),
            hp[node_p].low_key_p, hp[node_p].high_key_p, node_p,
            key, value, 0, 0, 0, 0)
LeafDeleteDeltaKeepSize(hp, node_p, key, value) ==
  DeltaNode("LeafDelete", hp[node_p].height + 1, hp[node_p].size,
            hp[node_p].low_key_p, hp[node_p].high_key_p, node_p,
            key, value, 0, 0, 0, 0)
LeafDeleteDelta(hp, node_p, key, value) ==
  DeltaNode("LeafDelete", hp[node_p].height + 1, U32Sub(hp[node_p].size, U32(1)),
            hp[node_p].low_key_p, hp[node_p].high_key_p, node_p,
            key, value, 0, 0, 0, 0)
LeafSplitDeltaPlusOne(hp, node_p, key, sibling_id, new_size) ==
  DeltaNode("LeafSplit", hp[node_p].height + 1, U32Sub(hp[node_p].size, U32(new_size)),
            hp[node_p].low_key_p, NullKeyP, node_p,
            Get(key), sibling_id, 0, 0, 0, 0)
LeafSplitDelta(hp, node_p, key, sibling_id, new_size) ==
  DeltaNode("LeafSplit", hp[node_p].height, U32Sub(hp[node_p].size, U32(new_size)),
            hp[node_p].low_key_p, NullKeyP, node_p,
            Get(key), sibling_id, 0, 0, 0, 0)
LeafMergeDeltaLeftHigh(hp, node_p, key, sibling_id, sibling_p) ==
  DeltaNode("LeafMerge", hp[node_p].height + hp[sibling_p].height,
            U32Add(hp[node_p].size, hp[sibling_p].size),
            hp[node_p].low_key_p, hp[node_p].high_key_p, node_p,
            key, sibling_id, sibling_p, 0, 0, 0)
LeafMergeDelta(hp, node_p, key, sibling_id, sibling_p) ==
  DeltaNode("LeafMerge", hp[node_p].height + hp[sibling_p].height,
            U32Add(hp[node_p].size, hp[sibling_p].size),
            hp[node_p].low_key_p, hp[sibling_p].high_key_p, node_p,
            key, sibling_id, sibling_p, 0, 0, 0)
LeafRemoveDelta(hp, node_p, removed_id) ==
  DeltaNode("LeafRemove", hp[node_p].height, hp[node_p].size,
            hp[node_p].low_key_p, hp[node_p].high_key_p, node_p,
            removed_id, 0, 0, 0, 0, 0)
InnerInsertDeltaKeepHeight(hp, node_p, key, value, next_key, next_value) ==
  DeltaNode("InnerInsert", hp[node_p].height, U32Add(hp[node_p].size, U32(1)),
            hp[node_p].low_key_p, hp[node_p].high_key_p, node_p,
            key, value, next_key, next_value, 0, 0)
InnerInsertDelta(hp, node_p, key, value, next_key, next_value) ==
  DeltaNode("InnerInsert", hp[node_p].height + 1, U32Add(hp[node_p].size, U32(1)),
            hp[node_p].low_key_p, hp[node_p].high_key_p, node_p,
            key, value, next_key, next_value, 0, 0)
InnerDeleteDelta(hp, node_p, key, value, next_key, next_id, prev_key, prev_id) ==
  DeltaNode("InnerDelete", hp[node_p].height + 1, U32Sub(hp[node_p].size, U32(1)),
            hp[node_p].low_key_p, hp[node_p].high_key_p, node_p,
            key, value, next_key, next_id, prev_key, prev_id)
InnerSplitDelta(hp, node_p, key, sibling_id, new_size) ==
  DeltaNode("InnerSplit", hp[node_p].height, U32Sub(hp[node_p].size, U32(new_size)),
            hp[node_p].low_key_p, NullKeyP, node_p,
            Get(key), sibling_id, 0, 0, 0, 0)
InnerMergeDelta(hp, node_p, key, sibling_id, sibling_p) ==
  DeltaNode("InnerMerge", hp[node_p].height + hp[sibling_p].height,
            U32Add(hp[node_p].size, hp[sibling_p].size),
            hp[node_p].low_key_p, hp[sibling_p].high_key_p, node_p,
            key, sibling_id, sibling_p, 0, 0, 0)
InnerRemoveDelta(hp, node_p, removed_id) ==
  DeltaNode("InnerRemove", hp[node_p].height, hp[node_p].size,
            hp[node_p].low_key_p, hp[node_p].high_key_p, node_p,
            removed_id, 0, 0, 0, 0, 0)

AppendResultNull(cas_ok, node_p, delta_p) == [node_p |-> delta_p, ret |-> NULL]
AppendResultKeepNode(cas_ok, node_p, delta_p) ==
  [node_p |-> node_p, ret |-> IF cas_ok THEN NULL ELSE delta_p]
AppendResultMoveNode(cas_ok, node_p, delta_p) ==
  [node_p |-> delta_p, ret |-> IF cas_ok THEN NULL ELSE delta_p]

\* The end of every Append function:
\* CAS(node_id, node_p, delta_p) ? (node_p = delta_p, nullptr) : delta_p.
AppendResult(cas_ok, node_p, delta_p) ==
  IF cas_ok THEN [node_p |-> delta_p, ret |-> NULL]
            ELSE [node_p |-> node_p, ret |-> delta_p]

\* AppendHelper(pnode_id, pnode_p, ptable_p).
AppendHelper(pnode_id, pnode_p) == [node_id |-> pnode_id, node_p |-> pnode_p]

\* AppendHelper::GetNode.
GetNode(a) == a.node_p

\* The two base nodes the append runs start from: node 1 under id 0 with the
\* range [-inf, MaxKey) and its right neighbour node 2 under id 1 with the
\* range [MaxKey, +inf), both leaves or both inner nodes.
InitAppend ==
  /\ \E leaf \in BOOLEAN :
       LET ptype == IF leaf THEN "LeafBase" ELSE "InnerBase" IN
       heap = << BaseNode(1, ptype, 1, GetInf, Get(MaxKey), <<1>>, <<11>>),
                 BaseNode(2, ptype, 1, Get(MaxKey), GetInf, <<MaxKey>>, <<12>>) >>
  /\ mapping_table = [i \in NodeIDs |-> IF i = 0 THEN 1 ELSE IF i = 1 THEN 2 ELSE NULL]
  /\ next_slot = 2
  /\ ah = [h \in Helpers |-> AppendHelper(0, 1)]
  /\ installed = [i \in NodeIDs |-> <<>>]
  /\ lost = [i \in NodeIDs |-> {}]
  /\ thr = [t \in Threads |-> IdleThread]
  /\ ret = NULL
  /\ returned = [i \in AllSlots |-> 0]
  /\ verify_ret = <<>>
  /\ call = NoCall
  /\ aborted = "none"
  /\ walk = NoWalk
  /\ ct = NoConsolidator
  /\ destroyed = <<>>

\* A new helper for node id i, built on the head the table holds:
\* AppendHelperType ah{id, table_p->At(id), table_p}.
NewHelper(h, i) ==
  /\ aborted = "none"
  /\ At(mapping_table, i) # NULL
  /\ ah[h] # AppendHelper(i, At(mapping_table, i))
  /\ ah' = [ah EXCEPT ![h] = AppendHelper(i, At(mapping_table, i))]
  /\ UNCHANGED <<tableVars, mtVars, aborted, heap, installed, lost, walkVars>>

\* The number of deltas a run allocates: MaxDeltas when helpers race, MaxChain
\* when one writer per id builds the chains that are then traversed.
DeltaLimit == IF walk.pc = "none" THEN MaxDeltas ELSE MaxChain

\* While the chains to traverse are built, helper 1 is the one writer of id 0
\* and helper 2 the one writer of id 1, and the chain of id 1 is built first.
Writer(h) == h = 1 \/ (h = 2 /\ installed[0] = <<>>)

\* A helper can make an Append call of the leaf (or inner) family.
CanAppend(h, leaf) ==
  /\ aborted = "none"
  /\ walk.pc \in {"none", "build"}
  /\ Len(heap) < 2 + DeltaLimit
  /\ walk.pc = "build" => Writer(h)
  /\ (heap[ah[h].node_p].type \in LeafTypes) = leaf

\* The body every Append function shares: AllocateDelta gives the new record
\* a fresh address, a split delta gets SetSplitHighKey, then one CAS on the
\* helper's id decides what the call returns.
AppendDelta(h, delta) ==
  LET delta_p == Len(heap) + 1
      hp == Append(heap, delta)
      r == CAS(mapping_table, ah[h].node_id, ah[h].node_p, delta_p)
      res == AppendResult(r.ret, ah[h].node_p, delta_p)
  IN /\ heap' = IF delta.type \in SplitTypes THEN SetSplitHighKey(hp, delta_p) ELSE hp
     /\ mapping_table' = r.table
     /\ ah' = [ah EXCEPT ![h].node_p = res.node_p]
     /\ ret' = res.ret
     /\ installed' = IF res.ret = NULL
                       THEN [installed EXCEPT ![ah[h].node_id] = Append(@, delta_p)]
                       ELSE installed
     /\ lost' = IF res.ret = NULL THEN lost
                ELSE [lost EXCEPT ![ah[h].node_id] = @ \cup {res.ret}]
     /\ UNCHANGED <<next_slot, thr, returned, verify_ret, call, aborted, walkVars>>

\* assert(cond) failed: the process aborts before anything is allocated.
AssertFailAfterAllocate(what) ==
  /\ aborted' = what
  /\ heap' = Append(heap, heap[1])
  /\ UNCHANGED <<tableVars, mtVars, ah, installed, lost, walkVars>>
AssertFail(what) ==
  /\ aborted' = what
  /\ UNCHANGED <<tableVars, mtVars, heap, ah, installed, lost, walkVars>>

AppendLeafInsert(h, key, value) ==
  /\ CanAppend(h, TRUE)
  /\ IF KeyInNode(heap, ah[h].node_p, key)
       THEN AppendDelta(h, LeafInsertDelta(heap, ah[h].node_p, key, value))
       ELSE AssertFail("AppendLeafInsert: node_p->KeyInNode(key)")

AppendLeafDelete(h, key, value) ==
  /\ CanAppend(h, TRUE)
  /\ IF KeyInNode(heap, ah[h].node_p, key)
       THEN AppendDelta(h, LeafDeleteDelta(heap, ah[h].node_p, key, value))
       ELSE AssertFail("AppendLeafDelete: node_p->KeyInNode(key)")

AppendLeafSplit(h, key, sibling_id, new_size) ==
  /\ CanAppend(h, TRUE)
  /\ AppendDelta(h, LeafSplitDelta(heap, ah[h].node_p, key, sibling_id, new_size))

\* The sibling handed to a merge is the head of another node id whose chain
\* shares no record with the helper's own chain.
MergeSibling(h, sibling_id) ==
  /\ sibling_id # ah[h].node_id
  /\ At(mapping_table, sibling_id) # NULL
  /\ ReachFrom(heap, At(mapping_table, sibling_id))
       \cap ReachFrom(heap, ah[h].node_p) = {}

AppendLeafMerge(h, key, sibling_id) ==
  /\ CanAppend(h, TRUE)
  /\ MergeSibling(h, sibling_id)
  /\ AppendDelta(h, LeafMergeDelta(heap, ah[h].node_p, key, sibling_id,
                                   At(mapping_table, sibling_id)))

AppendLeafRemove(h, removed_id) ==
  /\ CanAppend(h, TRUE)
  /\ AppendDelta(h, LeafRemoveDelta(heap, ah[h].node_p, removed_id))

AppendInnerInsert(h, key, value, next_key, next_value) ==
  /\ CanAppend(h, FALSE)
  /\ IF KeyInNode(heap, ah[h].node_p, key)
       THEN AppendDelta(h, InnerInsertDelta(heap, ah[h].node_p, key, value,
                                            next_key, next_value))
       ELSE AssertFail("AppendInnerInsert: node_p->KeyInNode(key)")

AppendInnerDelete(h, key, value, next_key, next_id, prev_key, prev_id) ==
  /\ CanAppend(h, FALSE)
  /\ IF KeyInNode(heap, ah[h].node_p, key)
       THEN AppendDelta(h, InnerDeleteDelta(heap, ah[h].node_p, key, value,
                                            next_key, next_id, prev_key, prev_id))
       ELSE AssertFail("AppendInnerDelete: node_p->KeyInNode(key)")

AppendInnerSplit(h, key, sibling_id, new_size) ==
  /\ CanAppend(h, FALSE)
  /\ IF KeyInNode(heap, ah[h].node_p, key)
       THEN AppendDelta(h, InnerSplitDelta(heap, ah[h].node_p, key, sibling_id,
                                           new_size))
       ELSE AssertFail("AppendInnerSplit: node_p->KeyInNode(key)")

AppendInnerMerge(h, key, sibling_id) ==
  /\ CanAppend(h, FALSE)
  /\ MergeSibling(h, sibling_id)
  /\ AppendDelta(h, InnerMergeDelta(heap, ah[h].node_p, key, sibling_id,
                                    At(mapping_table, sibling_id)))

AppendInnerRemove(h, removed_id) ==
  /\ CanAppend(h, FALSE)
  /\ AppendDelta(h, InnerRemoveDelta(heap, ah[h].node_p, removed_id))

\* Arguments of the calls: a key inside and a key outside the range of node
\* id 0, the sibling of a split and the id a remove delta names, the number
\* of entries a split hands to its sibling.
AppendKeys == {1, MaxKey}
SplitSizes == {1}
SplitSiblingIDs == {1}
RemovedIDs == {1}
InnerChildIDs == {21}
LeafValues == {31}

\* Helper h makes one Append call, of any kind.
AppendCall(h) ==
  \/ \E k \in AppendKeys, v \in LeafValues : AppendLeafInsert(h, k, v)
  \/ \E k \in AppendKeys, v \in LeafValues : AppendLeafDelete(h, k, v)
  \/ \E k \in AppendKeys, i \in SplitSiblingIDs, n \in SplitSizes :
       AppendLeafSplit(h, k, i, n)
  \/ \E i \in NodeIDs : AppendLeafMerge(h, MaxKey, i)
  \/ \E i \in RemovedIDs : AppendLeafRemove(h, i)
  \/ \E k \in AppendKeys, v \in InnerChildIDs : AppendInnerInsert(h, k, v, k, v)
  \/ \E k \in AppendKeys, v \in InnerChildIDs : AppendInnerDelete(h, k, v, k, v, k, v)
  \/ \E k \in AppendKeys, i \in SplitSiblingIDs, n \in SplitSizes :
       AppendInnerSplit(h, k, i, n)
  \/ \E i \in NodeIDs : AppendInnerMerge(h, MaxKey, i)
  \/ \E i \in RemovedIDs : AppendInnerRemove(h, i)

NextAppend ==
  \/ \E h \in Helpers, i \in NodeIDs : NewHelper(h, i)
  \/ \E h \in Helpers, k \in AppendKeys, v \in LeafValues : AppendLeafInsert(h, k, v)
  \/ \E h \in Helpers, k \in AppendKeys, v \in LeafValues : AppendLeafDelete(h, k, v)
  \/ \E h \in Helpers, k \in AppendKeys, i \in SplitSiblingIDs, n \in SplitSizes :
       AppendLeafSplit(h, k, i, n)
  \/ \E h \in Helpers, i \in NodeIDs : AppendLeafMerge(h, MaxKey, i)
  \/ \E h \in Helpers, i \in RemovedIDs : AppendLeafRemove(h, i)
  \/ \E h \in Helpers, k \in AppendKeys, v \in InnerChildIDs :
       AppendInnerInsert(h, k, v, k, v)
  \/ \E h \in Helpers, k \in AppendKeys, v \in InnerChildIDs :
       AppendInnerDelete(h, k, v, k, v, k, v)
  \/ \E h \in Helpers, k \in AppendKeys, i \in SplitSiblingIDs, n \in SplitSizes :
       AppendInnerSplit(h, k, i, n)
  \/ \E h \in Helpers, i \in NodeIDs : AppendInnerMerge(h, MaxKey, i)
  \/ \E h \in Helpers, i \in RemovedIDs : AppendInnerRemove(h, i)

SpecAppend == InitAppend /\ [][NextAppend]_vars

\* ------------------------------------------- the steps of a split append
\* AppendLeafSplit / AppendInnerSplit statement by statement, thread h
\* working with helper h: thr[h] holds the position in the call and the
\* delta_p it has allocated.
InSplit(ppc, pdelta_p) == [pc |-> ppc, node_p |-> pdelta_p, slot |-> 0]

\* AllocateDelta of AppendLeafSplit: the delta is built with a null high key.
LeafSplitAllocate(h, key, sibling_id, new_size) ==
  /\ CanAppend(h, TRUE)
  /\ thr[h].pc = "idle"
  /\ heap' = Append(heap, LeafSplitDelta(heap, ah[h].node_p, key, sibling_id, new_size))
  /\ thr' = [thr EXCEPT ![h] = InSplit("split_set", Len(heap) + 1)]
  /\ UNCHANGED <<tableVars, ret, returned, verify_ret, call, aborted, ah, installed,
                 lost, walkVars>>

\* assert(node_p->KeyInNode(key)) and AllocateDelta of AppendInnerSplit.
InnerSplitAllocate(h, key, sibling_id, new_size) ==
  /\ CanAppend(h, FALSE)
  /\ thr[h].pc = "idle"
  /\ IF KeyInNode(heap, ah[h].node_p, key)
       THEN /\ heap' = Append(heap, InnerSplitDelta(heap, ah[h].node_p, key, sibling_id,
                                                    new_size))
            /\ thr' = [thr EXCEPT ![h] = InSplit("split_set", Len(heap) + 1)]
            /\ UNCHANGED <<tableVars, ret, returned, verify_ret, call, aborted, ah,
                           installed, lost, walkVars>>
       ELSE AssertFail("AppendInnerSplit: node_p->KeyInNode(key)")

\* delta_p->SetSplitHighKey().
SplitSetHighKey(h) ==
  /\ aborted = "none"
  /\ thr[h].pc = "split_set"
  /\ heap' = SetSplitHighKey(heap, thr[h].node_p)
  /\ thr' = [thr EXCEPT ![h].pc = "split_cas"]
  /\ UNCHANGED <<tableVars, ret, returned, verify_ret, call, aborted, ah, installed,
                 lost, walkVars>>

\* return table_p->CAS(node_id, node_p, delta_p) ? (node_p = delta_p, nullptr)
\* : delta_p.
SplitCAS(h) ==
  /\ aborted = "none"
  /\ thr[h].pc = "split_cas"
  /\ LET delta_p == thr[h].node_p
         r == CAS(mapping_table, ah[h].node_id, ah[h].node_p, delta_p)
         res == AppendResult(r.ret, ah[h].node_p, delta_p)
     IN /\ mapping_table' = r.table
        /\ ah' = [ah EXCEPT ![h].node_p = res.node_p]
        /\ ret' = res.ret
        /\ installed' = IF res.ret = NULL
                          THEN [installed EXCEPT ![ah[h].node_id] = Append(@, delta_p)]
                          ELSE installed
        /\ lost' = IF res.ret = NULL THEN lost
                   ELSE [lost EXCEPT ![ah[h].node_id] = @ \cup {res.ret}]
  /\ thr' = [thr EXCEPT ![h] = IdleThread]
  /\ UNCHANGED <<next_slot, returned, verify_ret, call, aborted, heap, walkVars>>

\* A helper that is not inside a split append is built anew on the head of a
\* node, or makes an insert append.
IdleNewHelper(h, i) == thr[h].pc = "idle" /\ NewHelper(h, i)
IdleLeafInsert(h, key, value) == thr[h].pc = "idle" /\ AppendLeafInsert(h, key, value)
IdleInnerInsert(h, key, value) ==
  thr[h].pc = "idle" /\ AppendInnerInsert(h, key, value, key, value)

NextSplit ==
  \/ \E h \in Helpers, i \in NodeIDs : IdleNewHelper(h, i)
  \/ \E h \in Helpers, k \in AppendKeys, v \in LeafValues : IdleLeafInsert(h, k, v)
  \/ \E h \in Helpers, k \in AppendKeys, v \in InnerChildIDs : IdleInnerInsert(h, k, v)
  \/ \E h \in Helpers, k \in AppendKeys, i \in SplitSiblingIDs, n \in SplitSizes :
       LeafSplitAllocate(h, k, i, n)
  \/ \E h \in Helpers, k \in AppendKeys, i \in SplitSiblingIDs, n \in SplitSizes :
       InnerSplitAllocate(h, k, i, n)
  \/ \E h \in Helpers : SplitSetHighKey(h)
  \/ \E h \in Helpers : SplitCAS(h)

SpecSplit == InitAppend /\ [][NextSplit]_vars

\* ------------------------------------------------------ chains to traverse
\* The set-up of LeafConsolidationTest / InnerConsolidationTest: node id 0
\* holds base 1 (an empty leaf with the range (-inf, +inf), or an inner base
\* whose first entry stands for the low bound), node id 1 holds base 2 with
\* the range [MaxKey + 1, +inf).  Helper 1 writes id 0 and helper 2 writes
\* id 1; the keys are those below and the low key of base 2.
ChainKeys == {1, MaxKey, MaxKey + 1}

InitChain ==
  /\ \E leaf \in BOOLEAN :
       heap = IF leaf
                THEN << BaseNode(1, "LeafBase", 0, GetInf, GetInf, <<>>, <<>>),
                        BaseNode(2, "LeafBase", 2, Get(MaxKey + 1), GetInf,
                                 <<MaxKey + 1, MaxKey + 2>>, <<12, 13>>) >>
                ELSE << BaseNode(1, "InnerBase", 2, GetInf, GetInf,
                                 <<MaxKey, 0>>, <<10, 11>>),
                        BaseNode(2, "InnerBase", 2, Get(MaxKey + 1), GetInf,
                                 <<MaxKey + 1, MaxKey + 2>>, <<12, 13>>) >>
  /\ mapping_table = [i \in NodeIDs |-> IF i = 0 THEN 1 ELSE IF i = 1 THEN 2 ELSE NULL]
  /\ next_slot = 2
  /\ ah = [h \in Helpers |-> IF h = 1 THEN AppendHelper(0, 1) ELSE AppendHelper(1, 2)]
  /\ installed = [i \in NodeIDs |-> <<>>]
  /\ lost = [i \in NodeIDs |-> {}]
  /\ thr = [t \in Threads |-> IdleThread]
  /\ ret = NULL
  /\ returned = [i \in AllSlots |-> 0]
  /\ verify_ret = <<>>
  /\ call = NoCall
  /\ aborted = "none"
  /\ walk = [pc |-> "build"]
  /\ ct = NoConsolidator
  /\ destroyed = <<>>

\* The switch of Traverse: the handler function called for a node type.
HandlerSwapped(type) ==
  CASE type = "LeafDelete" -> "HandleLeafInsert"
    [] type = "InnerDelete" -> "HandleInnerInsert"
    [] type = "LeafSplit" -> "HandleLeafRemove"
    [] type = "InnerSplit" -> "HandleInnerRemove"
    [] OTHER -> "Handle" \o type
Handler(type) ==
  CASE type = "LeafBase" -> "HandleLeafBase"
    [] type = "InnerBase" -> "HandleInnerBase"
    [] type = "LeafInsert" -> "HandleLeafInsert"
    [] type = "InnerInsert" -> "HandleInnerInsert"
    [] type = "LeafDelete" -> "HandleLeafDelete"
    [] type = "InnerDelete" -> "HandleInnerDelete"
    [] type = "LeafSplit" -> "HandleLeafSplit"
    [] type = "InnerSplit" -> "HandleInnerSplit"
    [] type = "LeafMerge" -> "HandleLeafMerge"
    [] type = "InnerMerge" -> "HandleInnerMerge"
    [] type = "LeafRemove" -> "HandleLeafRemove"
    [] type = "InnerRemove" -> "HandleInnerRemove"
\* The handler functions for the node types of a set.
Handlers(types) == {"Handle" \o t : t \in types}

\* Traverse(node_p, handler_p) is called on a fresh handler; calls is the
\* history of the handler functions called, each with its argument.
StartWalk(ppc, pnode_p) ==
  [pc |-> ppc, head |-> pnode_p, node_p |-> pnode_p, finished |-> FALSE,
   next_p |-> NULL, stack |-> <<>>, calls |-> <<>>]

\* Traverse calls the handler function of the type of the node at node_p.
Called(w, hp) == [w EXCEPT !.calls = Append(@, <<Handler(hp[w.node_p].type), w.node_p>>)]

\* The end of one iteration of Traverse's loop: break when the handler has
\* finished, else go on to the handler's next pointer.
LoopEnd(w, ret_pc) ==
  IF w.finished THEN [w EXCEPT !.pc = ret_pc] ELSE [w EXCEPT !.node_p = w.next_p]

\* ------------------------------------------------------------ consolidator
\* The capacity of the inserted and deleted lists (template parameter).
HEIGHT_THRESHOLD == 2

\* *key_p for a pointer to the key field of an insert or delete delta.
KeyOf(hp, key_p) == hp[key_p].t1

KeyPtrGreater(hp, p1, p2) == KeyOf(hp, p1) < KeyOf(hp, p2)

\* std::sort(first, last, comp): the orders of the list in which no element
\* comes after one that comp puts behind it (elements comp does not order may
\* end up either way round).
SortResults(hp, lst) ==
  {s \in [1..Len(lst) -> SeqRange(lst)] :
     /\ SeqRange(s) = SeqRange(lst)
     /\ \A i \in 1..Len(lst), j \in 1..Len(lst) :
          i < j => ~KeyPtrGreater(hp, s[j], s[i])}

\* DefaultConsolidator(): empty lists, no high key; new_base is the base the
\* consolidation builds; sorted_list is history, the inserted list as the
\* last SortInsertedList() left it.
DefaultConsolidator ==
  [made |-> TRUE, inserted_list |-> <<>>, inserted_num |-> 0,
   deleted_list |-> <<>>, deleted_num |-> 0, current_high_key_p |-> NULL,
   sorted_list |-> <<>>,
   new_base |-> [phases |-> 0, entries |-> <<>>, low_key |-> GetInf, high_key |-> GetInf]]

IsInList(hp, key, key_list, num) == \E i \in 1..num : key = KeyOf(hp, key_list[i])
IsInserted(c, hp, key) == IsInList(hp, key, c.inserted_list, c.inserted_num)
IsDeleted(c, hp, key) == IsInList(hp, key, c.deleted_list, c.deleted_num)

\* Insert(key_p) and Delete(key_p); ok is FALSE when the capacity assert fails.
Insert(c, hp, key_p) ==
  IF IsDeleted(c, hp, KeyOf(hp, key_p)) = FALSE
    THEN [ok |-> c.inserted_num < HEIGHT_THRESHOLD,
          c |-> [c EXCEPT !.inserted_list = Append(SubSeq(@, 1, c.inserted_num), key_p),
                          !.inserted_num = @ + 1]]
    ELSE [ok |-> TRUE, c |-> c]
Delete(c, hp, key_p) ==
  IF IsInserted(c, hp, KeyOf(hp, key_p)) = FALSE
    THEN [ok |-> c.deleted_num < HEIGHT_THRESHOLD,
          c |-> [c EXCEPT !.deleted_list = Append(SubSeq(@, 1, c.deleted_num), key_p),
                          !.deleted_num = @ + 1]]
    ELSE [ok |-> TRUE, c |-> c]

IsInsertListEmpty(c) == c.inserted_num = 0
\* TopKey(): the last occupied position of the inserted list.
TopKey(c) == c.inserted_list[c.inserted_num]

\* What a consolidation or free step leaves alone besides walk, ct, destroyed.
walkFrame == <<next_slot, mtVars, heap, ah, installed, lost>>

\* The handler sets next to the record's next pointer (section 4.4 of the
\* specification; the handlers of the source leave next_p as it is).
Advance(w, hp) == [w EXCEPT !.next_p = hp[w.node_p].next_node_p]

\* The comparison with the high key recorded on the branch.
Beyond(key, bound) == bound.inf = FALSE /\ key >= bound.key

\* The final phase at a base (section 4.6, rule 5): the base's entries from
\* index i on, in their order, interleaved with the inserted list consumed
\* from its top, whichever key is smaller first; a base key in the deleted
\* list is skipped; the phase stops at the first key at or beyond stop.
RECURSIVE MergeEntries(_, _, _, _, _, _)
MergeEntries(hp, c, keys, vals, i, stop) ==
  LET hasBase == i <= Len(keys)
  IN IF IsInsertListEmpty(c) /\ ~hasBase THEN <<>>
     ELSE IF ~IsInsertListEmpty(c) /\ (~hasBase \/ KeyOf(hp, TopKey(c)) <= keys[i])
       THEN LET t == KeyOf(hp, TopKey(c))
                popped == [c EXCEPT !.inserted_num = @ - 1]
            IN IF Beyond(t, stop) THEN <<>>
               ELSE <<[key |-> t, val |-> hp[TopKey(c)].t2]>>
                    \o MergeEntries(hp, popped, keys, vals,
                                    IF hasBase /\ keys[i] = t THEN i + 1 ELSE i, stop)
       ELSE IF Beyond(keys[i], stop) THEN <<>>
            ELSE IF IsDeleted(c, hp, keys[i])
              THEN MergeEntries(hp, c, keys, vals, i + 1, stop)
              ELSE <<[key |-> keys[i], val |-> vals[i]]>>
                   \o MergeEntries(hp, c, keys, vals, i + 1, stop)

\* The new base after the final phase at base_p: the first entry of an inner
\* base stays first, the range runs from the low key of the first base to the
\* high key in effect at the last one; the inserted list is used up.
MergeBase(c, hp, base_p) ==
  LET b == hp[base_p]
      split == c.current_high_key_p # NULL
      stop == IF split THEN hp[c.current_high_key_p].t1 ELSE GetInf
      inner == b.type = "InnerBase" /\ Len(b.keys) > 0
      first == IF inner THEN <<[key |-> b.keys[1], val |-> b.vals[1]]>> ELSE <<>>
      rest == MergeEntries(hp, c, b.keys, b.vals, IF inner THEN 2 ELSE 1, stop)
  IN [c EXCEPT !.new_base = [phases |-> @.phases + 1,
                             entries |-> @.entries \o first \o rest,
                             low_key |-> IF @.phases = 0 THEN b.low_key ELSE @.low_key,
                             high_key |-> IF split THEN stop ELSE b.high_key],
               !.inserted_list = <<>>, !.inserted_num = 0]

\* ConsolidatorType ct{head}; ConsolidationTraverserType::Traverse(head, &ct)
\* on the chain of node id 0.
CtStart ==
  /\ aborted = "none"
  /\ walk.pc = "build"
  /\ walk' = StartWalk("ct", At(mapping_table, 0))
  /\ ct' = DefaultConsolidator
  /\ UNCHANGED <<mapping_table, walkFrame, aborted, destroyed>>

CtAt(types) ==
  /\ aborted = "none"
  /\ walk.pc = "ct"
  /\ Handler(heap[walk.node_p].type) \in Handlers(types)

\* HandleLeafBase / HandleInnerBase.
CtHandleBase ==
  /\ CtAt(BaseTypes)
  /\ \E sorted \in SortResults(heap, SubSeq(ct.inserted_list, 1, ct.inserted_num)) :
       ct' = MergeBase([ct EXCEPT !.inserted_list = sorted, !.sorted_list = sorted],
                       heap, walk.node_p)
  /\ walk' = LoopEnd([Called(walk, heap) EXCEPT !.finished = TRUE], "ct_ret")
  /\ UNCHANGED <<mapping_table, walkFrame, aborted, destroyed>>

\* HandleLeafInsert / HandleInnerInsert.
CtHandleInsert ==
  /\ CtAt(InsertTypes)
  /\ LET r == Insert(ct, heap, walk.node_p) IN
       IF r.ok
         THEN /\ ct' = r.c
              /\ walk' = LoopEnd(Advance(Called(walk, heap), heap), "ct_ret")
              /\ UNCHANGED aborted
         ELSE /\ aborted' = "Insert: inserted_num < HEIGHT_THRESHOLD"
              /\ UNCHANGED <<walk, ct>>
  /\ UNCHANGED <<mapping_table, walkFrame, destroyed>>

\* HandleLeafDelete / HandleInnerDelete.
CtHandleDelete ==
  /\ CtAt(DeleteTypes)
  /\ LET r == Delete(ct, heap, walk.node_p) IN
       IF r.ok
         THEN /\ ct' = r.c
              /\ walk' = LoopEnd(Advance(Called(walk, heap), heap), "ct_ret")
              /\ UNCHANGED aborted
         ELSE /\ aborted' = "Delete: deleted_num < HEIGHT_THRESHOLD"
              /\ UNCHANGED <<walk, ct>>
  /\ UNCHANGED <<mapping_table, walkFrame, destroyed>>

\* HandleLeafSplit / HandleInnerSplit.
CtHandleSplit ==
  /\ CtAt(SplitTypes)
  /\ ct' = [ct EXCEPT !.current_high_key_p = walk.node_p]
  /\ walk' = LoopEnd(Advance(Called(walk, heap), heap), "ct_ret")
  /\ UNCHANGED <<mapping_table, walkFrame, aborted, destroyed>>

\* HandleLeafMerge / HandleInnerMerge up to the first recursive Traverse.
CtHandleMerge ==
  /\ CtAt(MergeTypes)
  /\ walk' = [Called(walk, heap) EXCEPT
                !.stack = Append(@, [node |-> walk.node_p, branch |-> "next",
                                     saved_deleted_num |-> ct.deleted_num,
                                     saved_high_key_p |-> ct.current_high_key_p]),
                !.node_p = heap[walk.node_p].next_node_p]
  /\ UNCHANGED <<mapping_table, walkFrame, aborted, ct, destroyed>>

CtReturned(branch) ==
  /\ aborted = "none"
  /\ walk.pc = "ct_ret"
  /\ walk.stack # <<>>
  /\ walk.stack[Len(walk.stack)].branch = branch

\* deleted_num = saved_deleted_num; current_high_key_p = saved_high_key_p.
RestoreSavedHighKeyOnly(c, f) == [c EXCEPT !.current_high_key_p = f.saved_high_key_p]
RestoreSaved(c, f) ==
  [c EXCEPT !.deleted_num = f.saved_deleted_num,
            !.current_high_key_p = f.saved_high_key_p]

\* The merge handler after Traverse(node_p->GetNext(), this) has returned.
CtMergeSibling ==
  /\ CtReturned("next")
  /\ LET f == walk.stack[Len(walk.stack)] IN
       /\ ct' = RestoreSaved(ct, f)
       /\ walk' = [walk EXCEPT !.finished = FALSE, !.pc = "ct",
                               !.node_p = heap[f.node].t3,
                               !.stack[Len(walk.stack)].branch = "sibling"]
  /\ UNCHANGED <<mapping_table, walkFrame, aborted, destroyed>>

\* The merge handler returns; Traverse asserts Finished() and returns.
CtMergeReturn ==
  /\ CtReturned("sibling")
  /\ IF walk.finished
       THEN /\ walk' = [walk EXCEPT !.stack = SubSeq(@, 1, Len(@) - 1)]
            /\ UNCHANGED aborted
       ELSE /\ aborted' = "Traverse: handler_p->Finished()"
            /\ UNCHANGED walk
  /\ UNCHANGED <<mapping_table, walkFrame, ct, destroyed>>

\* The outermost Traverse returns.
CtDone ==
  /\ aborted = "none"
  /\ walk.pc = "ct_ret"
  /\ walk.stack = <<>>
  /\ walk' = [walk EXCEPT !.pc = "ct_done"]
  /\ UNCHANGED <<mapping_table, walkFrame, aborted, ct, destroyed>>

\* The consolidator defines no remove handler: TraverseHandlerBase's Fail().
CtHandleRemove ==
  /\ CtAt(RemoveTypes)
  /\ aborted' = "Unknown delta nodes"
  /\ UNCHANGED <<mapping_table, walkFrame, walk, ct, destroyed>>

\* ------------------------------------------------------------- free helper
\* GetBase(node_p)->DestroyDelta(node_p): the delta is deleted; through a base
\* that has been destroyed already the call is undefined, it may go through
\* or crash.
DestroyDeltaOutcomes(hp, gone, node_p) ==
  IF GetBase(hp, node_p) \in SeqRange(gone) THEN {"destroyed", "crash"} ELSE {"destroyed"}

\* The branches HandleLeafMerge / HandleInnerMerge traverse, in order.
MergeBranchesNextOnly(hp, node_p) == <<hp[node_p].next_node_p>>
MergeBranches(hp, node_p) == <<hp[node_p].next_node_p, hp[node_p].t3>>

\* DeltaChainFreeHelperType dcfh{table_p}; FreeTraverserType::Traverse(head,
\* &dcfh) on the chain of node id 0.
FhStart ==
  /\ aborted = "none"
  /\ walk.pc = "build"
  /\ walk' = StartWalk("fh", At(mapping_table, 0))
  /\ UNCHANGED <<mapping_table, walkFrame, aborted, ct, destroyed>>

FhAt(types) ==
  /\ aborted = "none"
  /\ walk.pc = "fh"
  /\ Handler(heap[walk.node_p].type) \in Handlers(types)

\* HandleLeafBase / HandleInnerBase.
FhHandleBase ==
  /\ FhAt(BaseTypes)
  /\ destroyed' = Append(destroyed, walk.node_p)
  /\ walk' = LoopEnd([Called(walk, heap) EXCEPT !.finished = TRUE], "fh_ret")
  /\ UNCHANGED <<mapping_table, walkFrame, aborted, ct>>

\* DestroyDelta at the end of a handler, then the end of the loop iteration.
FhDestroy(w, node_p) ==
  \E outcome \in DestroyDeltaOutcomes(heap, destroyed, node_p) :
    IF outcome = "destroyed"
      THEN /\ destroyed' = Append(destroyed, node_p)
           /\ walk' = w
           /\ UNCHANGED aborted
      ELSE /\ aborted' = "DestroyDelta through a destroyed base"
           /\ UNCHANGED <<walk, destroyed>>

\* HandleLeafInsert / HandleInnerInsert / HandleLeafDelete / HandleInnerDelete
\* / HandleLeafSplit / HandleInnerSplit.
FhHandleDelta ==
  /\ FhAt(InsertTypes \cup DeleteTypes \cup SplitTypes)
  /\ FhDestroy(LoopEnd([Called(walk, heap) EXCEPT !.next_p = heap[walk.node_p].next_node_p],
                         "fh_ret"),
               walk.node_p)
  /\ UNCHANGED <<mapping_table, walkFrame, ct>>

\* HandleLeafRemove / HandleInnerRemove.
FhHandleRemove ==
  /\ FhAt(RemoveTypes)
  /\ mapping_table' = ReleaseNodeID(mapping_table, heap[walk.node_p].t1)
  /\ FhDestroy(LoopEnd([Called(walk, heap) EXCEPT !.next_p = heap[walk.node_p].next_node_p],
                         "fh_ret"),
               walk.node_p)
  /\ UNCHANGED <<walkFrame, ct>>

\* HandleLeafMerge / HandleInnerMerge up to the first recursive Traverse.
FhHandleMerge ==
  /\ FhAt(MergeTypes)
  /\ walk' = [Called(walk, heap) EXCEPT
                !.stack = Append(@, [node |-> walk.node_p, branch |-> 1]),
                !.node_p = MergeBranches(heap, walk.node_p)[1]]
  /\ UNCHANGED <<mapping_table, walkFrame, aborted, ct, destroyed>>

FhReturned ==
  /\ aborted = "none"
  /\ walk.pc = "fh_ret"
  /\ walk.stack # <<>>

\* The merge handler after the Traverse of one branch has returned, when
\* another branch is left: Finished() = false and the next Traverse.
FhMergeSibling ==
  /\ FhReturned
  /\ LET f == walk.stack[Len(walk.stack)] IN
       /\ f.branch < Len(MergeBranches(heap, f.node))
       /\ walk' = [walk EXCEPT !.finished = FALSE, !.pc = "fh",
                               !.node_p = MergeBranches(heap, f.node)[f.branch + 1],
                               !.stack[Len(walk.stack)].branch = f.branch + 1]
  /\ UNCHANGED <<mapping_table, walkFrame, aborted, ct, destroyed>>

\* The merge handler after its last Traverse: it destroys the merge delta
\* and returns; Traverse asserts Finished() and returns.
FhMergeReturn ==
  /\ FhReturned
  /\ LET f == walk.stack[Len(walk.stack)] IN
       /\ f.branch = Len(MergeBranches(heap, f.node))
       /\ FhDestroy([walk EXCEPT !.stack = SubSeq(@, 1, Len(@) - 1)], f.node)
  /\ UNCHANGED <<mapping_table, walkFrame, ct>>

\* The outermost Traverse returns.
FhDone ==
  /\ aborted = "none"
  /\ walk.pc = "fh_ret"
  /\ walk.stack = <<>>
  /\ walk' = [walk EXCEPT !.pc = "fh_done"]
  /\ UNCHANGED <<mapping_table, walkFrame, aborted, ct, destroyed>>

\* The chains are built, then the chain of node id 0 is consolidated or freed.
NextChain ==
  \/ \E h \in Helpers, k \in ChainKeys, v \in LeafValues : AppendLeafInsert(h, k, v)
  \/ \E h \in Helpers, k \in ChainKeys, v \in LeafValues : AppendLeafDelete(h, k, v)
  \/ \E h \in Helpers, k \in ChainKeys, i \in SplitSiblingIDs, n \in SplitSizes :
       AppendLeafSplit(h, k, i, n)
  \/ \E h \in Helpers, i \in NodeIDs : AppendLeafMerge(h, MaxKey + 1, i)
  \/ \E h \in Helpers, i \in RemovedIDs : AppendLeafRemove(h, i)
  \/ \E h \in Helpers, k \in ChainKeys, v \in InnerChildIDs :
       AppendInnerInsert(h, k, v, k, v)
  \/ \E h \in Helpers, k \in ChainKeys, v \in InnerChildIDs :
       AppendInnerDelete(h, k, v, k, v, k, v)
  \/ \E h \in Helpers, k \in ChainKeys, i \in SplitSiblingIDs, n \in SplitSizes :
       AppendInnerSplit(h, k, i, n)
  \/ \E h \in Helpers, i \in NodeIDs : AppendInnerMerge(h, MaxKey + 1, i)
  \/ \E h \in Helpers, i \in RemovedIDs : AppendInnerRemove(h, i)
  \/ CtStart \/ CtHandleBase \/ CtHandleInsert \/ CtHandleDelete \/ CtHandleSplit
  \/ CtHandleMerge \/ CtMergeSibling \/ CtMergeReturn \/ CtDone \/ CtHandleRemove
  \/ FhStart \/ FhHandleBase \/ FhHandleDelta \/ FhHandleRemove
  \/ FhHandleMerge \/ FhMergeSibling \/ FhMergeReturn \/ FhDone

SpecChain == InitChain /\ [][NextChain]_vars

\* Traverse is a loop of one thread: once called it runs on until it returns
\* or an assertion stops it.
TraverseStep ==
  \/ CtHandleBase \/ CtHandleInsert \/ CtHandleDelete \/ CtHandleSplit
  \/ CtHandleMerge \/ CtMergeSibling \/ CtMergeReturn \/ CtDone \/ CtHandleRemove
  \/ FhHandleBase \/ FhHandleDelta \/ FhHandleRemove
  \/ FhHandleMerge \/ FhMergeSibling \/ FhMergeReturn \/ FhDone
SpecTraverse == SpecChain /\ WF_vars(TraverseStep)

\* --------------------------------------------------------------- base node
\* Keys stored in the base nodes that are searched and split: 1..MaxBaseKey.
MaxBaseKey == 4
\* Split() calls of one run.
MaxSplits == 2

\* static_cast<int>(GetSize()): sizes of base nodes are far below 2^31.
SizeInt(size) == size.hi * Half + size.lo

\* KeyAt(index) and ValueAt(index): KeyBegin()[index], ValueBegin()[index].
KeyAt(hp, n, index) == hp[n].keys[index + 1]
ValueAt(hp, n, index) == hp[n].vals[index + 1]

\* std::lower_bound in the place of std::upper_bound.
RECURSIVE UpperBoundLower(_, _, _, _, _)
UpperBoundLower(hp, n, first, len, key) ==
  IF len <= 0 THEN first
  ELSE LET half == len \div 2
           middle == first + half
       IN IF KeyAt(hp, n, middle) < key
            THEN UpperBoundLower(hp, n, middle + 1, len - half - 1, key)
            ELSE UpperBoundLower(hp, n, first, half, key)
\* std::upper_bound(KeyBegin() + first, KeyBegin() + first + len, key): the
\* binary search for the first position whose key is greater than key.
RECURSIVE UpperBound(_, _, _, _, _)
UpperBound(hp, n, first, len, key) ==
  IF len <= 0 THEN first
  ELSE LET half == len \div 2
           middle == first + half
       IN IF key < KeyAt(hp, n, middle)
            THEN UpperBound(hp, n, first, half, key)
            ELSE UpperBound(hp, n, middle + 1, len - half - 1, key)

\* DefaultBaseNode::Search: the outcomes of a call, each an index or the
\* assertion that failed.  On an empty node the range [KeyBegin() + 1,
\* KeyEnd()) handed to std::upper_bound is not a range: the call is undefined,
\* the search may crash, and no index it returns passes the second assert.
Search(hp, n, key) ==
  LET size == SizeInt(hp[n].size)
      index == UpperBound(hp, n, 1, size - 1, key) - 1
  IN IF ~KeyInNode(hp, n, key)
       THEN {[failed |-> "Search: KeyInNode(key)", ret |-> 0]}
     ELSE IF size = 0
       THEN {[failed |-> "Search: ret >= 0 && ret < GetSize()", ret |-> 0],
             [failed |-> "Search: std::upper_bound on an invalid range", ret |-> 0]}
     ELSE IF index >= 0 /\ index < size
       THEN {[failed |-> "none", ret |-> index]}
     ELSE {[failed |-> "Search: ret >= 0 && ret < GetSize()", ret |-> 0]}

\* DefaultBaseNode::PointSearch: KeyAt(index) == key ? index : -1.
PointSearch(hp, n, key) ==
  {IF o.failed # "none" THEN o
   ELSE [failed |-> "none", ret |-> IF KeyAt(hp, n, o.ret) = key THEN o.ret ELSE -1] :
     o \in Search(hp, n, key)}

\* Split() with the pivot rounded up.
SplitCeil(hp, n, self) ==
  LET old_size == SizeInt(hp[n].size)
      pivot == (old_size + 1) \div 2
      new_size == old_size - pivot
  IN BaseNode(self, hp[n].type, new_size, Get(KeyAt(hp, n, pivot)),
              Deref(hp, hp[n].high_key_p),
              SubSeq(hp[n].keys, pivot + 1, old_size),
              SubSeq(hp[n].vals, pivot + 1, old_size))
\* DefaultBaseNode::Split: the node Get() returns at address self, with the
\* upper half of the keys and values copied into it.
Split(hp, n, self) ==
  LET old_size == SizeInt(hp[n].size)
      pivot == old_size \div 2
      new_size == old_size - pivot
  IN BaseNode(self, hp[n].type, new_size, Get(KeyAt(hp, n, pivot)),
              Deref(hp, hp[n].high_key_p),
              SubSeq(hp[n].keys, pivot + 1, old_size),
              SubSeq(hp[n].vals, pivot + 1, old_size))

\* A Split() that also cuts the node it is called on down to its lower half.
SplitHeapInPlace(hp, n) ==
  LET pivot == SizeInt(hp[n].size) \div 2 IN
  Append([hp EXCEPT ![n].size = U32(pivot),
                    ![n].keys = SubSeq(@, 1, pivot),
                    ![n].vals = SubSeq(@, 1, pivot)],
         Split(hp, n, Len(hp) + 1))
\* The memory after Split(): the new node is allocated, nothing else is
\* written.
SplitHeap(hp, n) == Append(hp, Split(hp, n, Len(hp) + 1))

\* The keys of S in ascending order.
RECURSIVE Ascending(_)
Ascending(S) ==
  IF S = {} THEN <<>>
  ELSE LET m == CHOOSE k \in S : \A j \in S : k <= j
       IN <<m>> \o Ascending(S \ {m})

\* BaseNodeTest: one base node, leaf or inner, with strictly ascending keys
\* inside its range, the value of key k being k + 10.
InitBase ==
  /\ \E S \in SUBSET (1..MaxBaseKey), ptype \in BaseTypes,
        plow_key \in {GetInf, Get(1)}, phigh_key \in {GetInf, Get(MaxBaseKey + 1)} :
       LET pkeys == Ascending(S) IN
       heap = << BaseNode(1, ptype, Len(pkeys), plow_key, phigh_key, pkeys,
                          [i \in 1..Len(pkeys) |-> pkeys[i] + 10]) >>
  /\ mapping_table = EmptyTable
  /\ next_slot = FIRST_NODE_ID
  /\ thr = [t \in Threads |-> IdleThread]
  /\ ret = 0
  /\ returned = [i \in AllSlots |-> 0]
  /\ verify_ret = <<>>
  /\ call = NoCall
  /\ aborted = "none"
  /\ ah = <<>>
  /\ installed = <<>>
  /\ lost = <<>>
  /\ walk = NoWalk
  /\ ct = NoConsolidator
  /\ destroyed = <<>>

baseFrame == <<tableVars, thr, returned, verify_ret, ah, installed, lost, walkVars>>

\* The end of a call that returns an index, or stops at a failed assert.
BaseReturn(o) ==
  IF o.failed = "none"
    THEN ret' = o.ret /\ UNCHANGED aborted
    ELSE aborted' = o.failed /\ UNCHANGED ret

\* node_p->Search(key).
BaseSearch(n, key) ==
  /\ aborted = "none"
  /\ call' = [op |-> "Search", node_p |-> n, key |-> key]
  /\ \E o \in Search(heap, n, key) : BaseReturn(o)
  /\ UNCHANGED <<heap, baseFrame>>

\* node_p->PointSearch(key).
BasePointSearch(n, key) ==
  /\ aborted = "none"
  /\ call' = [op |-> "PointSearch", node_p |-> n, key |-> key]
  /\ \E o \in PointSearch(heap, n, key) : BaseReturn(o)
  /\ UNCHANGED <<heap, baseFrame>>

\* assert(old_size > 1) in Split().
SplitSizeNonZero(old_size) == old_size > 0
SplitSizeAbove1(old_size) == old_size > 1

\* node_p->Split(): assert(old_size > 1), then the new node is returned.
BaseSplit(n) ==
  /\ aborted = "none"
  /\ Len(heap) < 1 + MaxSplits
  /\ call' = [op |-> "Split", node_p |-> n, key |-> 0]
  /\ IF SplitSizeAbove1(SizeInt(heap[n].size))
       THEN /\ heap' = SplitHeap(heap, n)
            /\ ret' = Len(heap) + 1
            /\ UNCHANGED aborted
       ELSE /\ aborted' = "Split: old_size > 1"
            /\ UNCHANGED <<heap, ret>>
  /\ UNCHANGED baseFrame

\* The keys handed to the searches: inside and outside of every range.
SearchKeys == 0..(MaxBaseKey + 1)

NextBase ==
  \/ \E n \in 1..Len(heap), k \in SearchKeys : BaseSearch(n, k)
  \/ \E n \in 1..Len(heap), k \in SearchKeys : BasePointSearch(n, k)
  \/ \E n \in 1..Len(heap) : BaseSplit(n)

SpecBase == InitBase /\ [][NextBase]_vars

\* ---------------------------------------------------------------- bound key
\* Keys the bound keys of BoundKeyTest hold and are compared with: 0..MaxBound.
MaxBound == 3
BoundKeys == 0..MaxBound
BoundOps == {"<", ">", "==", "!=", ">=", "<="}

\* bound_key op k for one of the six operators.
Compare(op, bk, k) ==
  CASE op = "<" -> BoundKeyLT(bk, k)
    [] op = ">" -> BoundKeyGT(bk, k)
    [] op = "==" -> BoundKeyEQ(bk, k)
    [] op = "!=" -> BoundKeyNE(bk, k)
    [] op = ">=" -> BoundKeyGE(bk, k)
    [] op = "<=" -> BoundKeyLE(bk, k)

\* BoundKeyTest: no node, no table; bound keys are made and compared.
InitBound ==
  /\ heap = <<>>
  /\ mapping_table = EmptyTable
  /\ next_slot = FIRST_NODE_ID
  /\ thr = [t \in Threads |-> IdleThread]
  /\ ret = 0
  /\ returned = [i \in AllSlots |-> 0]
  /\ verify_ret = <<>>
  /\ call = NoCall
  /\ aborted = "none"
  /\ ah = <<>>
  /\ installed = <<>>
  /\ lost = <<>>
  /\ walk = NoWalk
  /\ ct = NoConsolidator
  /\ destroyed = <<>>

\* The comparison bk op k; a boolean result is kept in ret as 1 or 0.
BoundCompare(op, bk, k) ==
  /\ aborted = "none"
  /\ call' = [op |-> op, bound |-> bk, key |-> k]
  /\ LET o == Compare(op, bk, k) IN
       IF o.failed = "none"
         THEN ret' = (IF o.ret THEN 1 ELSE 0) /\ UNCHANGED aborted
         ELSE aborted' = o.failed /\ UNCHANGED ret
  /\ UNCHANGED <<heap, baseFrame>>

NextBound ==
  \/ \E op \in BoundOps, k \in BoundKeys : BoundCompare(op, GetInf, k)
  \/ \E op \in BoundOps, b, k \in BoundKeys : BoundCompare(op, Get(b), k)

SpecBound == InitBound /\ [][NextBound]_vars

\* ------------------------------------------------------------------ claims
ReturnedCount == LET S[k \in -1..TABLE_SIZE] ==
                       IF k = -1 THEN 0 ELSE S[k - 1] + returned[k]
                 IN S[TABLE_SIZE]

\* C1: in every interleaving of AllocateNodeID calls (since construction or
\* the last Reset) no two calls return the same id, every returned id is
\* below TABLE_SIZE, and once N <= TABLE_SIZE calls have been made and have
\* all returned, the returned ids are exactly 0..N-1.
C1_UniqueIds ==
  /\ \A i \in DOMAIN returned : returned[i] <= 1
  /\ \A i \in DOMAIN returned : returned[i] > 0 => i \in 0..(TABLE_SIZE - 1)
  /\ (AllIdle /\ next_slot <= TABLE_SIZE) =>
        /\ ReturnedCount = next_slot
        /\ {i \in DOMAIN returned : returned[i] > 0} = 0..(next_slot - 1)

\* The table is full and the call that took the last id returned before a
\* call that took an earlier one.
C1_Witness ==
  /\ ReturnedCount = TABLE_SIZE - 1
  /\ returned[TABLE_SIZE - 1] = 1
  /\ \E t \in Threads : thr[t].pc = "alloc_store" /\ thr[t].slot < TABLE_SIZE - 1

\* C2: CAS(id, old, new) returns true and stores new exactly when the slot
\* holds old, and otherwise returns false and leaves the slot as it is; a
\* verify round on a slot holding v returns true, false, true and leaves v.
C2_CasStep ==
  \A t \in Threads, i \in NodeIDs, o, n \in 0..MaxPtr :
    TableCAS(t, i, o, n) =>
      IF mapping_table[i] = o
        THEN mapping_table'[i] = n /\ ret' = 1
        ELSE mapping_table'[i] = mapping_table[i] /\ ret' = 0
C2_VerifyStep ==
  \A i \in NodeIDs :
    Verify(i) => verify_ret' = <<TRUE, FALSE, TRUE>> /\ mapping_table' = mapping_table
C2_CAS == [][C2_CasStep /\ C2_VerifyStep]_vars

\* A verify round has run on a slot that an allocation filled.
C2_Witness ==
  /\ verify_ret = <<TRUE, FALSE, TRUE>>
  /\ \E i \in NodeIDs : mapping_table[i] # NULL /\ returned[i] = 1

\* ---------------------------------------------------- append helper claims

\* C3: of the appends built on one observed head of a node id exactly one
\* got null back and every other got its own delta back, unpublished; the
\* chain under the slot is at every moment the deltas of the appends that
\* got null, newest first in the order of their CAS; every delta ever built
\* is accounted for once.
C3_RacingAppends ==
  /\ \A i \in NodeIDs :
       LET won == SeqRange(installed[i]) IN
       /\ At(mapping_table, i) # NULL =>
            ChainOf(heap, At(mapping_table, i)) = Reverse(installed[i])
       /\ Cardinality(won) = Len(installed[i])
       /\ \A e1 \in won, e2 \in won :
            heap[e1].next_node_p = heap[e2].next_node_p => e1 = e2
       /\ \A d \in lost[i] :
            /\ d \in 3..Len(heap)
            /\ d \notin won
            /\ d \notin SlotReach(heap, mapping_table)
            /\ Cardinality({e \in won :
                   heap[e].next_node_p = heap[d].next_node_p}) = 1
  /\ \A d \in 3..Len(heap) :
       Cardinality({i \in NodeIDs : d \in SeqRange(installed[i]) \cup lost[i]}) = 1

\* Two appends were built on the same head of one id: one is in the chain,
\* the other came back to its caller.
C3_Witness ==
  \E i \in NodeIDs : \E d \in lost[i] : \E e \in SeqRange(installed[i]) :
    /\ heap[e].next_node_p = heap[d].next_node_p
    /\ At(mapping_table, i) = e

\* C4: an Append call made while the slot of the helper's id holds the
\* helper's observed head returns null, leaves the new delta in the slot,
\* the new delta's next pointer is the observed head, and GetNode() is the
\* new delta.
C4_Step ==
  \A h \in Helpers :
    (/\ AppendCall(h)
     /\ aborted' = "none"
     /\ At(mapping_table, ah[h].node_id) = ah[h].node_p)
    => LET delta_p == Len(heap) + 1 IN
       /\ ret' = NULL
       /\ Len(heap') = delta_p
       /\ At(mapping_table', ah[h].node_id) = delta_p
       /\ heap'[delta_p].next_node_p = ah[h].node_p
       /\ GetNode(ah'[h]) = delta_p
C4_AppendSuccess == [][C4_Step]_vars

\* A helper has made two successful appends in a row, the second on the
\* head its first one installed.
C4_Witness ==
  \E h \in Helpers :
    /\ ret = NULL
    /\ Len(installed[ah[h].node_id]) = 2
    /\ GetNode(ah[h]) = Len(heap)
    /\ At(mapping_table, ah[h].node_id) = Len(heap)
    /\ heap[Len(heap)].next_node_p = installed[ah[h].node_id][1]

\* C5: an Append call made while the slot of the helper's id does not hold
\* the helper's observed head returns the delta it built (not null) after
\* its one CAS, leaves every slot as it was, leaves GetNode() at the old
\* observed head, and the returned delta is reachable from no slot.
C5_Step ==
  \A h \in Helpers :
    (/\ AppendCall(h)
     /\ aborted' = "none"
     /\ At(mapping_table, ah[h].node_id) # ah[h].node_p)
    => LET delta_p == Len(heap) + 1 IN
       /\ ret' = delta_p
       /\ ret' # NULL
       /\ Len(heap') = delta_p
       /\ heap'[delta_p].next_node_p = ah[h].node_p
       /\ mapping_table' = mapping_table
       /\ GetNode(ah'[h]) = GetNode(ah[h])
       /\ delta_p \notin SlotReach(heap', mapping_table')
C5_AppendFailure == [][C5_Step]_vars

\* A helper whose observed head is no longer in the slot got its delta back.
C5_Witness ==
  \E h \in Helpers :
    /\ ret = Len(heap)
    /\ ret \in lost[ah[h].node_id]
    /\ heap[ret].next_node_p = GetNode(ah[h])
    /\ At(mapping_table, ah[h].node_id) # GetNode(ah[h])

\* ------------------------------------------------------ traversal claims
\* The entries a chain stands for: the base's entries (an inner base's first
\* entry apart), each insert and delete applied in the order of the appends, a
\* split keeping the keys below its key, a merge joining both branches.
RECURSIVE RefLive(_, _)
RefLive(hp, n) ==
  LET r == hp[n] IN
  CASE r.type \in BaseTypes ->
         {[key |-> r.keys[i], val |-> r.vals[i]] :
            i \in (IF r.type = "InnerBase" THEN 2 ELSE 1)..Len(r.keys)}
    [] r.type \in InsertTypes ->
         {e \in RefLive(hp, r.next_node_p) : e.key # r.t1} \cup {[key |-> r.t1, val |-> r.t2]}
    [] r.type \in DeleteTypes -> {e \in RefLive(hp, r.next_node_p) : e.key # r.t1}
    [] r.type \in SplitTypes -> {e \in RefLive(hp, r.next_node_p) : e.key < r.t1.key}
    [] r.type \in RemoveTypes -> RefLive(hp, r.next_node_p)
    [] r.type \in MergeTypes -> RefLive(hp, r.next_node_p) \cup RefLive(hp, r.t3)

\* The entries of S in ascending key order.
RECURSIVE SortByKey(_)
SortByKey(S) ==
  IF S = {} THEN <<>>
  ELSE LET m == CHOOSE e \in S : \A f \in S : e.key <= f.key
       IN <<m>> \o SortByKey(S \ {m})

BelowHigh(hp, S, n) == {e \in S : ~Beyond(e.key, Deref(hp, hp[n].high_key_p))}

\* Every insert of the chain under n added a key that was not live and every
\* delete removed a key that was (keys are unique).
RECURSIVE UniqueKeys(_, _)
UniqueKeys(hp, n) ==
  LET r == hp[n]
      below == {e.key : e \in RefLive(hp, r.next_node_p)}
  IN CASE r.type \in BaseTypes -> TRUE
       [] r.type \in InsertTypes -> r.t1 \notin below /\ UniqueKeys(hp, r.next_node_p)
       [] r.type \in DeleteTypes -> r.t1 \in below /\ UniqueKeys(hp, r.next_node_p)
       [] r.type \in MergeTypes -> UniqueKeys(hp, r.next_node_p) /\ UniqueKeys(hp, r.t3)
       [] OTHER -> UniqueKeys(hp, r.next_node_p)

ChainTypes(hp, n) == {hp[d].type : d \in SeqRange(ChainOf(hp, n))}

\* C6: the consolidation of a chain of leaf inserts and leaf deletes (of
\* unique keys) over an empty leaf with the range (-inf, +inf) is the sorted
\* map the appends produce: each live key once, in ascending order, with the
\* value of its latest insert.
C6_RoundTrip ==
  (/\ walk.pc = "ct_done"
   /\ heap[1].type = "LeafBase" /\ heap[1].keys = <<>>
   /\ heap[1].low_key.inf /\ heap[1].high_key.inf
   /\ ChainTypes(heap, walk.head) \subseteq {"LeafInsert", "LeafDelete"}
   /\ UniqueKeys(heap, walk.head))
  => ct.new_base.entries = SortByKey(RefLive(heap, walk.head))

\* C7: the consolidation of a chain whose head is a merge delta (unique keys,
\* the left branch's keys below the sibling's low key) holds the live keys
\* of the left branch below that branch's high key, then the live keys
\* of the sibling branch below the sibling's high key, and its range runs
\* from the left low key to the sibling's high key.
C7_MergeHead ==
  (/\ walk.pc = "ct_done"
   /\ heap[walk.head].type = "LeafMerge"
   /\ UniqueKeys(heap, walk.head)
   /\ \A e \in RefLive(heap, heap[walk.head].next_node_p) :
        KeySmallerThanNode(heap, heap[walk.head].t3, e.key))
  => LET m == heap[walk.head] IN
     /\ ct.new_base.entries =
          SortByKey(BelowHigh(heap, RefLive(heap, m.next_node_p), m.next_node_p))
          \o SortByKey(BelowHigh(heap, RefLive(heap, m.t3), m.t3))
     /\ ct.new_base.low_key = Deref(heap, m.low_key_p)
     /\ ct.new_base.high_key = Deref(heap, heap[m.t3].high_key_p)

\* C8: the consolidation of a chain of inner inserts over an inner base keeps
\* the base's first entry first and holds every separator in strictly
\* ascending order with the child id of its own delta or base entry.
C8_InnerSeparators ==
  (/\ walk.pc = "ct_done"
   /\ heap[1].type = "InnerBase"
   /\ ChainTypes(heap, walk.head) \subseteq {"InnerInsert"}
   /\ UniqueKeys(heap, walk.head))
  => /\ ct.new_base.entries # <<>>
     /\ Head(ct.new_base.entries) = [key |-> heap[1].keys[1], val |-> heap[1].vals[1]]
     /\ Tail(ct.new_base.entries) = SortByKey(RefLive(heap, walk.head))

Count(s, x) == Cardinality({k \in DOMAIN s : s[k] = x})

\* C9: after the free helper has traversed a chain, every delta and base of
\* the chain, both branches of every merge included, has been destroyed
\* exactly once, nothing else has been destroyed, and the slot of the id of
\* every remove delta of the chain holds null.
C9_FreeOnce ==
  walk.pc = "fh_done" =>
    /\ \A n \in ReachFrom(heap, walk.head) : Count(destroyed, n) = 1
    /\ SeqRange(destroyed) \subseteq ReachFrom(heap, walk.head)
    /\ \A n \in ReachFrom(heap, walk.head) :
         heap[n].type \in RemoveTypes => At(mapping_table, heap[n].t1) = NULL

\* A freed chain with a remove delta above a merge delta whose sibling branch
\* has a delta of its own.
C9_Witness ==
  /\ walk.pc = "fh_done"
  /\ heap[walk.head].type \in RemoveTypes
  /\ \E m \in ReachFrom(heap, walk.head) :
       /\ heap[m].type \in MergeTypes
       /\ heap[heap[m].t3].type \notin BaseTypes
       /\ Count(destroyed, heap[m].t3) = 1

\* The deltas of the chains the slots hold.
InstalledDeltas ==
  {d \in SlotReach(heap, mapping_table) : heap[d].type \notin BaseTypes}

Fits(a, b) == a.hi + b.hi + ((a.lo + b.lo) \div Half) < Half
SumIs(a, b, c) ==
  LET lo == a.lo + b.lo
      hi == a.hi + b.hi + (lo \div Half)
  IN hi < Half /\ c = [hi |-> hi, lo |-> lo % Half]

\* C11: a delta installed over a head of size n has the size n + 1 for an
\* insert, n - 1 for a delete, n - new_size for a split, n + the sibling
\* head's size for a merge and n for a remove, in the arithmetic of the
\* 32-bit unsigned size field; where the integer result is a size (the head
\* is not empty, the sum is below 2^32) the field holds exactly that integer.
C11_SizeRule ==
  \A d \in InstalledDeltas :
    LET r == heap[d]
        n == heap[r.next_node_p].size
    IN /\ r.type \in InsertTypes =>
            /\ r.size = U32Add(n, U32(1))
            /\ Fits(n, U32(1)) => SumIs(n, U32(1), r.size)
       /\ r.type \in DeleteTypes =>
            /\ r.size = U32Sub(n, U32(1))
            /\ n # U32(0) => SumIs(r.size, U32(1), n)
       /\ r.type \in SplitTypes =>
            \E new_size \in SplitSizes :
              /\ r.size = U32Sub(n, U32(new_size))
              /\ (n.hi > 0 \/ n.lo >= new_size) => SumIs(r.size, U32(new_size), n)
       /\ r.type \in MergeTypes =>
            /\ r.size = U32Add(n, heap[r.t3].size)
            /\ Fits(n, heap[r.t3].size) => SumIs(n, heap[r.t3].size, r.size)
       /\ r.type \in RemoveTypes => r.size = n

\* A merge delta installed over an insert delta: 1 + 1 entries on the left
\* and one entry in the sibling.
C11_Witness ==
  \E d \in InstalledDeltas :
    /\ heap[d].type \in MergeTypes
    /\ heap[heap[d].next_node_p].type \in InsertTypes
    /\ heap[d].size = U32(3)

\* The heads of chains made of leaf inserts and leaf deletes over a leaf base.
InsertDeleteHeads ==
  {n \in SlotReach(heap, mapping_table) :
     /\ heap[n].type \in LeafTypes
     /\ ChainTypes(heap, n) \subseteq {"LeafInsert", "LeafDelete"}}

\* C12 as stated: after any sequence of successful leaf insert and leaf delete
\* appends the size field of every head is the number of live keys.
C12_AnySequence ==
  \A n \in InsertDeleteHeads : heap[n].size = U32(Cardinality(RefLive(heap, n)))

\* C12, corrected: the size field of a head is the number of live keys when
\* every insert of the chain added a key that was not live and every delete
\* removed a key that was.
C12_SizeIsLiveCount ==
  \A n \in InsertDeleteHeads :
    UniqueKeys(heap, n) => heap[n].size = U32(Cardinality(RefLive(heap, n)))

\* A key inserted, deleted and inserted again: one live key, size 1.
C12_Witness ==
  \E n \in InsertDeleteHeads :
    /\ UniqueKeys(heap, n)
    /\ heap[n].type = "LeafInsert"
    /\ heap[heap[n].next_node_p].type = "LeafDelete"
    /\ heap[heap[heap[n].next_node_p].next_node_p].type = "LeafInsert"
    /\ heap[n].size = U32(1)

\* ----------------------------------------------------------- header ranges
\* low <= k < high for the bounds of the header at n, with the sentinels.
InRange(hp, n, k) ==
  LET lo == Deref(hp, hp[n].low_key_p)
      hi == Deref(hp, hp[n].high_key_p)
  IN (lo.inf \/ lo.key <= k) /\ (hi.inf \/ k < hi.key)

\* The finite key an insert, delete or split delta carries.
CarriesKey(r) == r.type \in InsertTypes \cup DeleteTypes \cup SplitTypes
CarriedKey(r) == IF r.type \in SplitTypes THEN r.t1.key ELSE r.t1

\* C13 as stated: every insert, delete and split key of the chain that starts
\* at a header reachable from a slot lies in [low, high) of that header.
C13_ChainKeysInHeadRange ==
  \A n \in SlotReach(heap, mapping_table) :
    \A d \in SeqRange(ChainOf(heap, n)) :
      CarriesKey(heap[d]) => InRange(heap, n, CarriedKey(heap[d]))

\* C13, corrected: the key of an insert or delete delta lies in [low, high)
\* of the delta's own header, which are the bounds of the node beneath it;
\* the key of a split delta is the delta's own high bound (so it is not
\* below it), and the key of an inner split lies in [low, high) of the node
\* beneath it.
C13_Range ==
  \A d \in SlotReach(heap, mapping_table) :
    LET r == heap[d] IN
    /\ r.type \in InsertTypes \cup DeleteTypes =>
         InRange(heap, d, r.t1) /\ InRange(heap, r.next_node_p, r.t1)
    /\ r.type \in SplitTypes =>
         r.t1.inf = FALSE /\ Deref(heap, r.high_key_p) = r.t1
    /\ r.type = "InnerSplit" => InRange(heap, r.next_node_p, r.t1.key)

\* A split delta installed over an insert delta whose key is not below the
\* split key.
C13_Witness ==
  \E d \in InstalledDeltas :
    /\ heap[d].type \in SplitTypes
    /\ heap[heap[d].next_node_p].type \in InsertTypes
    /\ heap[heap[d].next_node_p].t1 >= heap[d].t1.key

\* C14: the high bound of an installed split delta is the finite bound key
\* held in the delta itself, its low bound is the low-bound object of the
\* node beneath it, and readers of the head see the range [low, k).
C14_SplitBounds ==
  \A d \in InstalledDeltas :
    heap[d].type \in SplitTypes =>
      LET r == heap[d] IN
      /\ r.high_key_p = KeyP(d, "t1")
      /\ r.t1.inf = FALSE /\ r.t1.key \in AppendKeys
      /\ Deref(heap, r.high_key_p) = Get(r.t1.key)
      /\ r.low_key_p = heap[r.next_node_p].low_key_p
      /\ KeyLargerThanNode(heap, d, r.t1.key)
      /\ ~KeyLargerThanNode(heap, d, r.t1.key - 1)
      /\ \A k \in 0..(MaxKey + 1) :
           KeySmallerThanNode(heap, d, k) = KeySmallerThanNode(heap, r.next_node_p, k)

\* A split delta whose high bound differs from that of the node beneath it.
C14_Witness ==
  \E d \in InstalledDeltas :
    /\ heap[d].type \in SplitTypes
    /\ Deref(heap, heap[d].high_key_p) # Deref(heap, heap[heap[d].next_node_p].high_key_p)

\* C15: a successful AppendLeafMerge / AppendInnerMerge(key, sibling_id,
\* sibling_p) installs a delta whose low bound is that of the left node,
\* whose high bound is that of sibling_p, and which records key, sibling_id
\* and sibling_p.
C15_Step ==
  LET delta_p == Len(heap') IN
  (Len(heap') = Len(heap) + 1 /\ heap'[delta_p].type \in MergeTypes /\ ret' = NULL) =>
    LET d == heap'[delta_p] IN
    \E h \in Helpers :
      /\ d.next_node_p = ah[h].node_p
      /\ At(mapping_table', ah[h].node_id) = delta_p
      /\ d.low_key_p = heap[ah[h].node_p].low_key_p
      /\ d.t1 = MaxKey
      /\ d.t2 \in NodeIDs /\ d.t3 = At(mapping_table, d.t2)
      /\ d.high_key_p = heap[d.t3].high_key_p
      /\ Deref(heap', d.high_key_p) = Deref(heap, heap[d.t3].high_key_p)
C15_MergeBounds == [][C15_Step]_vars

\* A merge delta installed with a sibling head that is a split delta: the
\* merged node's high bound is the sibling's split key.
C15_Witness ==
  \E d \in InstalledDeltas :
    /\ heap[d].type \in MergeTypes
    /\ heap[heap[d].t3].type \in SplitTypes
    /\ heap[d].high_key_p = KeyP(heap[d].t3, "t1")

\* -------------------------------------------------------- base node claims
\* The node and key of the last base-node call; the key is in the node's
\* range; the node holds at least one entry.
CallNode == heap[call.node_p]
CallInRange ==
  /\ CallNode.low_key.inf \/ CallNode.low_key.key <= call.key
  /\ CallNode.high_key.inf \/ call.key < CallNode.high_key.key
CallNonEmpty == Len(CallNode.keys) > 0
\* The 0-based indexes of the entries of the node with a key at most k, and
\* the greatest of the indexes in I.
IndexesUpTo(k) == {i \in 0..(Len(CallNode.keys) - 1) : CallNode.keys[i + 1] <= k}
Greatest(I) == CHOOSE i \in I : \A j \in I : j <= i

\* C16 as stated: for a key in the range of a (non-empty) base with ascending
\* keys, Search returns the index i with keys[i] <= k < keys[i+1], keys[size]
\* being the high bound.
C16_SearchLowerBound ==
  (call.op = "Search" /\ CallNonEmpty /\ CallInRange) =>
    /\ aborted = "none"
    /\ ret \in 0..(Len(CallNode.keys) - 1)
    /\ CallNode.keys[ret + 1] <= call.key
    /\ ret + 1 < Len(CallNode.keys) => call.key < CallNode.keys[ret + 2]

\* C16, corrected: for a key in the range of a non-empty base with ascending
\* keys, Search returns the greatest index i >= 1 with keys[i] <= k, and 0
\* when there is none: the key at index 0 is not compared, so 0 is also the
\* result for a key below keys[0].  For k >= keys[0] this is the index with
\* keys[i] <= k < keys[i+1], and size - 1 from the last key on.
C16_Search ==
  (call.op = "Search" /\ CallNonEmpty /\ CallInRange) =>
    /\ aborted = "none"
    /\ ret = Greatest({0} \cup (IndexesUpTo(call.key) \ {0}))
    /\ call.key >= CallNode.keys[1] =>
         /\ ret = Greatest(IndexesUpTo(call.key))
         /\ CallNode.keys[ret + 1] <= call.key
         /\ ret + 1 < Len(CallNode.keys) => call.key < CallNode.keys[ret + 2]
    /\ call.key >= CallNode.keys[Len(CallNode.keys)] => ret = Len(CallNode.keys) - 1

\* Search has returned 0 for a key of the range that is below the first key
\* of a node with several entries.
C16_Witness ==
  /\ call.op = "Search" /\ aborted = "none"
  /\ Len(CallNode.keys) > 1 /\ CallInRange
  /\ call.key < CallNode.keys[1]
  /\ ret = 0

\* C17: for every key of the node's range PointSearch returns the index of
\* the entry with that key when there is one, and -1 when there is none.
C17_PointSearch ==
  (call.op = "PointSearch" /\ CallInRange) =>
    /\ aborted = "none"
    /\ IF \E i \in 1..Len(CallNode.keys) : CallNode.keys[i] = call.key
         THEN ret >= 0 /\ CallNode.keys[ret + 1] = call.key
         ELSE ret = -1

\* C18: Split() on a base of size n > 1 returns a new base of the same type
\* with size n - floor(n/2), low bound finite(keys[floor(n/2)]), the high
\* bound of the original, and the entries floor(n/2)..n-1 in the same order.
C18_Split ==
  (call.op = "Split" /\ Len(CallNode.keys) > 1) =>
    /\ aborted = "none"
    /\ ret = Len(heap) /\ ret # call.node_p
    /\ LET n == Len(CallNode.keys)
           pivot == n \div 2
           new == heap[ret]
       IN /\ new.type = CallNode.type
          /\ new.height = 0
          /\ new.size = U32(n - pivot)
          /\ Deref(heap, new.low_key_p) = [key |-> CallNode.keys[pivot + 1], inf |-> FALSE]
          /\ Deref(heap, new.high_key_p) = Deref(heap, CallNode.high_key_p)
          /\ new.low_key_p.node = ret /\ new.high_key_p.node = ret
          /\ new.keys = [i \in 1..(n - pivot) |-> CallNode.keys[pivot + i]]
          /\ new.vals = [i \in 1..(n - pivot) |-> CallNode.vals[pivot + i]]

\* A node of three entries has been split: the new node holds the last two.
C18_Witness ==
  /\ call.op = "Split" /\ aborted = "none"
  /\ Len(CallNode.keys) = 3
  /\ Len(heap[ret].keys) = 2

\* C19: Split() leaves the node it is called on (and every other node) as it
\* was: size, type, height, bounds, keys and values.
C19_Step ==
  call'.op = "Split" => \A n \in 1..Len(heap) : heap'[n] = heap[n]
C19_SplitFrame == [][C19_Step]_vars

\* A node has been split and still holds all its entries, those copied to
\* the new node included.
C19_Witness ==
  /\ call.op = "Split" /\ aborted = "none"
  /\ ret = Len(heap) /\ ret # call.node_p
  /\ SizeInt(CallNode.size) = Len(CallNode.keys)
  /\ Len(CallNode.keys) > Len(heap[ret].keys)
  /\ CallNode.keys[Len(CallNode.keys)] = heap[ret].keys[Len(heap[ret].keys)]

\* --------------------------------------------------- allocation and At(id)
\* C20: an AllocateNodeID(p) that returns id leaves p in slot id, and while
\* id is allocated no step of any thread's AllocateNodeID changes slot id:
\* At(id) stays p until a CAS, ReleaseNodeID or Reset touches the id.
C20_Step ==
  /\ \A t \in Threads :
       (thr[t].pc = "alloc_store" /\ thr'[t].pc = "idle") =>
         ret' = thr[t].slot /\ At(mapping_table', ret') = thr[t].node_p
  /\ \A i \in NodeIDs :
       (returned[i] >= 1 /\ thr' # thr) => At(mapping_table', i) = At(mapping_table, i)
C20_AllocatedStays == [][C20_Step]_vars

\* Both ids have been returned, to calls with different pointers, the later
\* call being that of id 1, and each slot holds the pointer of its own call.
C20_Witness ==
  /\ returned[0] = 1 /\ returned[1] = 1
  /\ ret = 1
  /\ At(mapping_table, 0) = 1 /\ At(mapping_table, 1) = 2
  /\ AllIdle

\* ------------------------------------------------ mapping table invariants
\* An AllocateNodeID call has taken slot i from the counter and has not yet
\* stored into it.
InFlight(i) == \E t \in Threads : thr[t].pc = "alloc_store" /\ thr[t].slot = i

\* C21 as stated: in every reachable state, the states between the steps of
\* concurrent AllocateNodeID calls included, every slot below the allocation
\* counter has been written by its allocation and no slot at or above the
\* counter has been written.
C21_WrittenBelowCounter ==
  \A i \in NodeIDs :
    /\ i < next_slot => returned[i] >= 1
    /\ i >= next_slot => returned[i] = 0

\* C21: every slot below the allocation counter has been written by its
\* allocation or belongs to exactly one AllocateNodeID call that has
\* incremented the counter and not yet stored; no allocation has written or
\* taken a slot at or above the counter.
C21_WrittenOrInFlight ==
  /\ \A i \in NodeIDs :
       /\ i < next_slot => (returned[i] = 1) # InFlight(i)
       /\ i >= next_slot => returned[i] = 0 /\ ~InFlight(i)
  /\ \A t, u \in Threads :
       (t # u /\ thr[t].pc = "alloc_store" /\ thr[u].pc = "alloc_store")
         => thr[t].slot # thr[u].slot

\* The call that took slot 1 has stored and returned while the call that took
\* slot 0 has not stored yet: slot 0 is below the counter and unwritten.
C21_Witness ==
  /\ next_slot = 2
  /\ InFlight(0) /\ returned[0] = 0 /\ mapping_table[0] = NULL
  /\ returned[1] = 1 /\ mapping_table[1] # NULL

\* C22: ReleaseNodeID(id) sets slot id to null and leaves the allocation
\* counter, every other slot and the allocations in progress as they are; the
\* counter only grows between two Resets and every AllocateNodeID returns an
\* id that no call has returned since the last Reset, so no id that was
\* allocated and released is returned again.
C22_Step ==
  /\ \A t \in Threads, i \in NodeIDs :
       TableRelease(t, i) =>
         /\ At(mapping_table', i) = NULL
         /\ next_slot' = next_slot
         /\ returned' = returned /\ thr' = thr
         /\ \A j \in NodeIDs \ {i} : mapping_table'[j] = mapping_table[j]
  /\ \A t \in Threads :
       (thr[t].pc = "alloc_store" /\ thr'[t].pc = "idle") =>
         returned[ret'] = 0 /\ ret' < next_slot
  /\ next_slot' >= next_slot \/ TableReset
C22_ReleaseDoesNotRecycle == [][C22_Step]_vars

\* Id 0 was allocated and ReleaseNodeID has been called since the last Reset;
\* its slot is null, and the allocation made last returned id 1.
C22_Witness ==
  /\ call.op = "ReleaseNodeID"
  /\ returned[0] = 1 /\ At(mapping_table, 0) = NULL
  /\ returned[1] = 1 /\ ret = 1 /\ At(mapping_table, 1) # NULL
  /\ AllIdle

\* C23: an AllocateNodeID call whose fetch_add finds TABLE_SIZE ids taken
\* gets a slot outside the table and its next step fails the assertion
\* without writing: the table keeps its TABLE_SIZE slots and their contents.
C23_Step ==
  /\ \A t \in Threads :
       (thr[t].pc = "idle" /\ thr'[t].pc = "alloc_store" /\ next_slot >= TABLE_SIZE)
         => thr'[t].slot >= TABLE_SIZE
  /\ \A t \in Threads :
       (thr[t].pc = "alloc_store" /\ thr[t].slot >= TABLE_SIZE /\ AllocStore(t)) =>
         /\ aborted' = "AllocateNodeID: slot < TABLE_SIZE"
         /\ mapping_table' = mapping_table
         /\ returned' = returned
  /\ DOMAIN mapping_table' = NodeIDs
C23_OverflowAborts == [][C23_Step]_vars

\* The (TABLE_SIZE+1)-th allocation has failed its assertion after TABLE_SIZE
\* allocations returned.
C23_Witness ==
  /\ aborted = "AllocateNodeID: slot < TABLE_SIZE"
  /\ ReturnedCount = TABLE_SIZE
  /\ next_slot = TABLE_SIZE + 1
  /\ \A i \in NodeIDs : mapping_table[i] # NULL

\* ------------------------------------------- preconditions of the appends
\* Helper h makes one of the four insert / delete calls with the key k.
InsertDeleteCall(h, k) ==
  \/ \E v \in LeafValues : AppendLeafInsert(h, k, v)
  \/ \E v \in LeafValues : AppendLeafDelete(h, k, v)
  \/ \E v \in InnerChildIDs : AppendInnerInsert(h, k, v, k, v)
  \/ \E v \in InnerChildIDs : AppendInnerDelete(h, k, v, k, v, k, v)

\* C24: AppendLeafInsert, AppendLeafDelete, AppendInnerInsert and
\* AppendInnerDelete called with a key outside [low, high) of the observed
\* head fail an assertion, and no delta is allocated, no slot changes, no
\* record changes and the helper keeps its head.
C24_Step ==
  \A h \in Helpers, k \in AppendKeys :
    (InsertDeleteCall(h, k) /\ ~InRange(heap, ah[h].node_p, k)) =>
      /\ aborted' # "none"
      /\ heap' = heap
      /\ mapping_table' = mapping_table
      /\ ah' = ah /\ installed' = installed /\ lost' = lost
C24_KeyOutOfRange == [][C24_Step]_vars

\* An insert or delete stopped at its assertion after a delta had been
\* installed on the same node by an earlier call.
C24_Witness ==
  /\ aborted \in {"AppendLeafInsert: node_p->KeyInNode(key)",
                  "AppendLeafDelete: node_p->KeyInNode(key)",
                  "AppendInnerInsert: node_p->KeyInNode(key)",
                  "AppendInnerDelete: node_p->KeyInNode(key)"}
  /\ \E h \in Helpers : Len(installed[ah[h].node_id]) = 1 /\ Len(heap) = 3

\* The range of the node at sibling_p starts where that of the node at
\* node_p ends: both bounds are finite and equal.
AdjacentOnRight(hp, node_p, sibling_p) ==
  LET hi == Deref(hp, hp[node_p].high_key_p)
      lo == Deref(hp, hp[sibling_p].low_key_p)
  IN hi.inf = FALSE /\ lo.inf = FALSE /\ lo.key = hi.key

\* C25: a merge delta is installed only over a head whose high bound is the
\* low bound of the sibling, and a merge call with any other sibling fails
\* an assertion.
C25_Step ==
  /\ LET delta_p == Len(heap') IN
       (Len(heap') = Len(heap) + 1 /\ heap'[delta_p].type \in MergeTypes /\ ret' = NULL)
         => AdjacentOnRight(heap, heap'[delta_p].next_node_p, heap'[delta_p].t3)
  /\ \A h \in Helpers, i \in NodeIDs :
       (/\ AppendLeafMerge(h, MaxKey, i) \/ AppendInnerMerge(h, MaxKey, i)
        /\ ~AdjacentOnRight(heap, ah[h].node_p, At(mapping_table, i)))
         => aborted' # "none"
C25_MergeAdjacent == [][C25_Step]_vars

\* ----------------------------------------------------- frame of an append
\* C30: an append on node id A, whether its CAS succeeds or fails, leaves
\* the slot of every other id and every field of every record reachable from
\* a slot as it was; a successful append changes slot A and no other.
C30_Step ==
  \A h \in Helpers :
    AppendCall(h) =>
      /\ \A B \in NodeIDs \ {ah[h].node_id} : mapping_table'[B] = mapping_table[B]
      /\ \A n \in SlotReach(heap, mapping_table) : n \in DOMAIN heap' /\ heap'[n] = heap[n]
      /\ \A n \in DOMAIN heap : heap'[n] = heap[n]
      /\ ret' # NULL => mapping_table' = mapping_table
      /\ (ret' = NULL /\ aborted' = "none") =>
           mapping_table'[ah[h].node_id] # mapping_table[ah[h].node_id]
C30_AppendFrame == [][C30_Step]_vars

\* A split delta, whose high-key pointer is set after its allocation, has
\* been installed on id 0 over an earlier delta while id 1 holds a chain of
\* its own, or one such append has failed its CAS.
C30_Witness ==
  /\ Len(installed[0]) = 2
  /\ heap[At(mapping_table, 0)].type \in SplitTypes
  /\ heap[At(mapping_table, 1)].type \in BaseTypes
  /\ Len(heap) = 4

\* ------------------------------------------- assertions of the base node
\* C26: Split() on a base of size 0 or 1 fails its assertion: no node is
\* allocated and nothing is returned.
C26_Step ==
  \A n \in DOMAIN heap :
    (BaseSplit(n) /\ Len(heap[n].keys) <= 1) =>
      /\ aborted' = "Split: old_size > 1"
      /\ heap' = heap
      /\ ret' = ret
C26_SplitTooSmall == [][C26_Step]_vars

\* A node of one entry that an earlier Split() returned was split in turn.
C26_Witness ==
  /\ aborted = "Split: old_size > 1"
  /\ call.op = "Split" /\ call.node_p = 2
  /\ Len(heap[2].keys) = 1 /\ Len(heap) = 2

\* C27: Search(k) with k below a finite low bound, or at or above a finite
\* high bound, fails the range assertion; on a non-empty node whose bounds are
\* both infinite the range assertion does not fail and no other does.
C27_SearchRange ==
  call.op = "Search" =>
    /\ ~CallInRange => aborted = "Search: KeyInNode(key)"
    /\ (CallNode.low_key.inf /\ CallNode.high_key.inf /\ CallNonEmpty)
         => aborted = "none"
    /\ aborted = "Search: KeyInNode(key)" => ~CallInRange

\* Search(high key) on a non-empty node with a finite high bound has failed.
C27_Witness ==
  /\ call.op = "Search"
  /\ aborted = "Search: KeyInNode(key)"
  /\ CallNonEmpty
  /\ ~CallNode.high_key.inf /\ call.key = CallNode.high_key.key

\* ------------------------------------------------------ bound key operators
\* The comparison op between the integers a and b.
IntCompare(op, a, b) ==
  CASE op = "<" -> a < b
    [] op = ">" -> a > b
    [] op = "==" -> a = b
    [] op = "!=" -> a # b
    [] op = ">=" -> a >= b
    [] op = "<=" -> a <= b

\* C28: each of <, >, ==, !=, <=, >= between an infinite bound key and a key
\* fails an assertion; between a finite bound key and a key it returns the
\* result of the same comparison of the stored key with the key.
C28_BoundKeyCompare ==
  call.op \in BoundOps =>
    IF call.bound.inf
      THEN aborted # "none"
      ELSE /\ aborted = "none"
           /\ ret = (IF IntCompare(call.op, call.bound.key, call.key) THEN 1 ELSE 0)

\* inf_key <= k has failed its assertion after normal_key <= k returned true.
C28_Witness ==
  /\ call = [op |-> "<=", bound |-> GetInf, key |-> 1]
  /\ aborted = "BoundKey::operator<=: !inf"
  /\ ret = 1

\* C29: for every node header and key k, KeyInNode(k) is (low infinite or
\* low <= k) and (high infinite or k < high), KeySmallerThanNode(k) is (low
\* finite and k < low), KeyLargerThanNode(k) is (high finite and high <= k),
\* and none of them fails the assertion of a bound-key comparison.
C29_RangePredicates ==
  \A n \in DOMAIN heap, k \in 0..(MaxKey + 1) :
    LET lo == Deref(heap, heap[n].low_key_p)
        hi == Deref(heap, heap[n].high_key_p)
    IN /\ KeyInNode(heap, n, k) <=> ((lo.inf \/ lo.key <= k) /\ (hi.inf \/ k < hi.key))
       /\ KeySmallerThanNode(heap, n, k) <=> (~lo.inf /\ k < lo.key)
       /\ KeyLargerThanNode(heap, n, k) <=> (~hi.inf /\ hi.key <= k)
       /\ KeySmallerThanNodeCall(heap, n, k).failed = "none"
       /\ KeyLargerThanNodeCall(heap, n, k).failed = "none"

\* The headers at hand: a base with an infinite low bound, a base with an
\* infinite high bound, a split delta whose high bound is its own key and a
\* merge delta whose high bound is the sibling's.
C29_Witness ==
  /\ \E n \in DOMAIN heap : heap[n].type \in SplitTypes /\ heap[n].high_key_p = KeyP(n, "t1")
  /\ \E n \in DOMAIN heap : heap[n].type \in MergeTypes
  /\ Deref(heap, heap[1].low_key_p).inf /\ Deref(heap, heap[2].high_key_p).inf

\* ------------------------------------------------------------- traversal
\* The records from n to the base through next pointers, head first.
RECURSIVE FullChain(_, _)
FullChain(hp, n) == IF n = NULL THEN <<>> ELSE <<n>> \o FullChain(hp, hp[n].next_node_p)
MergeFree(hp, n) == \A m \in SeqRange(FullChain(hp, n)) : hp[m].type \notin MergeTypes
InLoop == walk.pc \in {"ct", "fh"}
Returned == walk.pc \in {"ct_ret", "ct_done", "fh_ret", "fh_done"}

\* The handlers called so far are those of the first records of the chain,
\* one call per record, in order; in the loop the next record is the one at
\* hand and the handler has not finished; after the loop every record has had
\* its call, the last being that of the base, which finished.
C31_OneCallPerRecord ==
  ((InLoop \/ Returned) /\ MergeFree(heap, walk.head)) =>
    LET chain == FullChain(heap, walk.head)
        n == Len(walk.calls)
    IN /\ n <= Len(chain)
       /\ \A i \in 1..n : walk.calls[i] = <<"Handle" \o heap[chain[i]].type, chain[i]>>
       /\ (InLoop /\ aborted = "none") =>
            n < Len(chain) /\ walk.node_p = chain[n + 1] /\ ~walk.finished
       /\ Returned =>
            n = Len(chain) /\ heap[chain[n]].type \in BaseTypes /\ walk.finished

\* C31: on a chain without merge deltas, with a handler that sets next to
\* the record's next pointer on every delta and finished on the base,
\* Traverse calls one handler per record, head to base, each the handler of
\* the record's kind, and returns right after the call for the base (or an
\* assertion of the consolidator stops it before).
C31_Traverse ==
  /\ []C31_OneCallPerRecord
  /\ (walk.pc = "fh" /\ MergeFree(heap, walk.head)) ~> (walk.pc = "fh_done")
  /\ (walk.pc = "ct" /\ MergeFree(heap, walk.head))
       ~> (walk.pc = "ct_done" \/ aborted # "none")

\* The free helper has walked a chain of three deltas of three kinds and
\* its base.
C31_Witness ==
  /\ walk.pc = "fh_done"
  /\ MergeFree(heap, walk.head)
  /\ Len(walk.calls) = 4
  /\ walk.calls[4][1] = "HandleLeafBase"
  /\ Cardinality({walk.calls[i][1] : i \in 1..3}) = 3

\* ------------------------------------------------- consolidation of a merge
\* The frame of the merge handler that is running innermost.
TopFrame(w) == w.stack[Len(w.stack)]
\* The deleted list as far as it is in use.
DeletedInUse(c) == SubSeq(c.deleted_list, 1, c.deleted_num)

\* C32: the merge handler saves the deleted-key count and the current high
\* key when it is called; when the traversal of the left branch has returned
\* it restores both and resets finished before it starts on the sibling,
\* whatever deletes and splits the left branch recorded: the deleted list in
\* use is again the one recorded above the merge; the saved values of a
\* running handler do not change, and the traversal of the sibling has
\* finished on a base when the handler returns.
C32_Step ==
  /\ (walk.pc = "ct" /\ Len(walk'.stack) = Len(walk.stack) + 1) =>
       /\ TopFrame(walk').saved_deleted_num = ct.deleted_num
       /\ TopFrame(walk').saved_high_key_p = ct.current_high_key_p
       /\ TopFrame(walk').node = walk.node_p
       /\ walk'.node_p = heap[walk.node_p].next_node_p
       /\ ct' = ct
  /\ (walk.pc = "ct_ret" /\ walk'.pc = "ct") =>
       LET f == TopFrame(walk) IN
       /\ ct'.deleted_num = f.saved_deleted_num
       /\ ct'.current_high_key_p = f.saved_high_key_p
       /\ DeletedInUse(ct') = SubSeq(ct.deleted_list, 1, f.saved_deleted_num)
       /\ walk.finished /\ ~walk'.finished
       /\ walk'.node_p = heap[f.node].t3
  /\ (walk.pc \in {"ct", "ct_ret"} /\ walk'.pc \in {"ct", "ct_ret"}) =>
       \A i \in 1..Len(walk.stack) :
         i <= Len(walk'.stack) =>
           /\ walk'.stack[i].saved_deleted_num = walk.stack[i].saved_deleted_num
           /\ walk'.stack[i].saved_high_key_p = walk.stack[i].saved_high_key_p
           /\ walk'.stack[i].node = walk.stack[i].node
           /\ SubSeq(ct'.deleted_list, 1, walk.stack[i].saved_deleted_num)
                = SubSeq(ct.deleted_list, 1, walk.stack[i].saved_deleted_num)
  /\ (walk.pc = "ct_ret" /\ Len(walk'.stack) = Len(walk.stack) - 1) =>
       /\ walk.finished
       /\ heap[walk.calls[Len(walk.calls)][2]].type \in BaseTypes
  /\ aborted' # "Traverse: handler_p->Finished()"
C32_MergeRestores == [][C32_Step]_vars

\* The traversal is in the sibling branch of a merge whose left branch
\* recorded a delete and a split: neither is in effect.
C32_Witness ==
  /\ walk.pc = "ct" /\ Len(walk.stack) = 1
  /\ TopFrame(walk).branch = "sibling"
  /\ LET left == FullChain(heap, heap[TopFrame(walk).node].next_node_p) IN
       /\ \E m \in SeqRange(left) : heap[m].type \in DeleteTypes
       /\ \E m \in SeqRange(left) : heap[m].type \in SplitTypes
  /\ ct.deleted_num = 0 /\ ct.current_high_key_p = NULL

\* --------------------------------------------------- the sorted inserted list
\* C33: at a base SortInsertedList leaves the inserted list in descending
\* key order, largest key first, so that the smallest inserted key is in the
\* last occupied position, the top of the stack.
C33_SortedDescending ==
  ct.made =>
    /\ \A i, j \in 1..Len(ct.sorted_list) :
         i < j => KeyOf(heap, ct.sorted_list[i]) >= KeyOf(heap, ct.sorted_list[j])
    /\ \A i \in 1..Len(ct.sorted_list) :
         KeyOf(heap, ct.sorted_list[Len(ct.sorted_list)]) <= KeyOf(heap, ct.sorted_list[i])

\* ------------------------------------------------- capacity of the lists
Consolidating == walk.pc \in {"ct", "ct_ret", "ct_done"}

\* C34: while a chain whose head has a height of at most HEIGHT_THRESHOLD is
\* consolidated, neither list holds more than HEIGHT_THRESHOLD entries and
\* neither capacity assertion fails.
C34_ListsFit ==
  (Consolidating /\ heap[walk.head].height <= HEIGHT_THRESHOLD) =>
    /\ ct.inserted_num <= HEIGHT_THRESHOLD /\ Len(ct.inserted_list) <= HEIGHT_THRESHOLD
    /\ ct.deleted_num <= HEIGHT_THRESHOLD /\ Len(ct.deleted_list) <= HEIGHT_THRESHOLD
    /\ aborted \notin {"Insert: inserted_num < HEIGHT_THRESHOLD",
                       "Delete: deleted_num < HEIGHT_THRESHOLD"}

\* The inserted list is full: the head's height is HEIGHT_THRESHOLD, the
\* chain has more deltas than that, and every insert of it is in the list.
C34_Witness ==
  /\ Consolidating
  /\ heap[walk.head].height = HEIGHT_THRESHOLD
  /\ Len(FullChain(heap, walk.head)) > HEIGHT_THRESHOLD + 1
  /\ ct.inserted_num = HEIGHT_THRESHOLD

\* ------------------------------------------- publication of a split delta
\* C35: every split delta a thread can get from the mapping table, as a head
\* through At(id) or beneath one, has its high-key pointer set to its own
\* split key, whatever step the other threads' split appends are at; no
\* record reachable from the table has a null high-key pointer.
C35_SplitPublished ==
  \A i \in NodeIDs :
    At(mapping_table, i) # NULL =>
      \A n \in ReachFrom(heap, At(mapping_table, i)) :
        /\ heap[n].high_key_p # NullKeyP
        /\ heap[n].type \in SplitTypes =>
             /\ heap[n].high_key_p = KeyP(n, "t1")
             /\ Deref(heap, heap[n].high_key_p) = heap[n].t1
             /\ heap[n].t1.inf = FALSE

\* A split delta is the head of node id 0 while another thread has allocated
\* a split delta on the same node and not yet set its high key.
C35_Witness ==
  /\ heap[At(mapping_table, 0)].type \in SplitTypes
  /\ \E h \in Helpers :
       /\ thr[h].pc = "split_set"
       /\ heap[thr[h].node_p].high_key_p = NullKeyP
       /\ ah[h].node_id = 0

\* ------------------------------------------------- the base of a delta chain
\* The base node that ends the chain followed through next pointers from n.
RECURSIVE ChainBase(_, _)
ChainBase(hp, n) == IF hp[n].type \in BaseTypes THEN n ELSE ChainBase(hp, hp[n].next_node_p)

\* C36: for every head a successful append has installed on a node id, of
\* whatever delta kind, GetBase() of the head is the base node that ends the
\* chain followed through next pointers from that head.
C36_GetBaseIsChainBase ==
  \A i \in NodeIDs :
    \A k \in DOMAIN installed[i] :
      LET head == installed[i][k] IN
        /\ GetBase(heap, head) = ChainBase(heap, head)
        /\ heap[GetBase(heap, head)].type \in BaseTypes
        /\ heap[head].low_key_p = KeyP(ChainBase(heap, head), "low")

\* A merge delta has been installed above a split delta; its sibling branch
\* ends in another base than the one GetBase() gives.
C36_Witness ==
  \E i \in NodeIDs : \E k \in DOMAIN installed[i] :
    LET head == installed[i][k] IN
      /\ heap[head].type \in MergeTypes
      /\ heap[heap[head].next_node_p].type \in SplitTypes
      /\ ChainBase(heap, heap[head].t3) # GetBase(heap, head)

\* ------------------------------------------- the base a delta is freed through
\* C37: in a free-helper traversal every delta is destroyed through a base
\* node that has not been destroyed before it, merge deltas included: no
\* DestroyDelta call goes through a destroyed base, whether it goes through
\* or crashes.
C37_DestroyThroughLiveBase ==
  /\ aborted # "DestroyDelta through a destroyed base"
  /\ \A k \in DOMAIN destroyed :
       heap[destroyed[k]].type \notin BaseTypes =>
         \A j \in 1..(k - 1) : destroyed[j] # GetBase(heap, destroyed[k])

\* ---------------------------------------------------- sizes that wrap around
\* C38: no installed header has a size produced by 32-bit wraparound: the
\* size of every installed delta is the exact integer n + 1, n - 1,
\* n - new_size, n + the sibling's size or n, n being the size of the node
\* beneath it; no delete is installed over a head of size 0 and no split
\* takes more entries than the head has.
C38_NoWraparound ==
  \A d \in InstalledDeltas :
    LET r == heap[d]
        n == heap[r.next_node_p].size
    IN /\ r.type \in InsertTypes => SumIs(n, U32(1), r.size)
       /\ r.type \in DeleteTypes => n # U32(0) /\ SumIs(r.size, U32(1), n)
       /\ r.type \in SplitTypes =>
            \E new_size \in SplitSizes : SumIs(r.size, U32(new_size), n)
       /\ r.type \in MergeTypes => SumIs(n, heap[r.t3].size, r.size)
       /\ r.type \in RemoveTypes => r.size = n

\* ------------------------------------------- the two lists of a consolidation
\* The keys of the inserted and of the deleted list in use, in list order.
InsertedKeys(c, hp) == [k \in 1..c.inserted_num |-> KeyOf(hp, c.inserted_list[k])]
DeletedKeys(c, hp) == [k \in 1..c.deleted_num |-> KeyOf(hp, c.deleted_list[k])]
NoKeyTwice(s) == \A i \in DOMAIN s, j \in DOMAIN s : s[i] = s[j] => i = j

\* The insert and delete deltas for key the traversal has handled so far,
\* newest first.
SeenFor(key) ==
  SelectSeq([k \in DOMAIN walk.calls |-> walk.calls[k][2]],
            LAMBDA n : heap[n].type \in InsertTypes \cup DeleteTypes /\ heap[n].t1 = key)

\* C39: while a chain without merges is consolidated, neither list holds a
\* key twice, no key is in both, and a key is in the inserted list exactly
\* when the newest delta for it handled so far is an insert, in the deleted
\* list exactly when that delta is a delete.
C39_ListsFollowNewest ==
  (walk.pc = "ct" /\ aborted = "none" /\ MergeFree(heap, walk.head)) =>
    LET ins == InsertedKeys(ct, heap)
        del == DeletedKeys(ct, heap)
    IN /\ NoKeyTwice(ins)
       /\ NoKeyTwice(del)
       /\ SeqRange(ins) \cap SeqRange(del) = {}
       /\ \A key \in ChainKeys :
            /\ key \in SeqRange(ins) <=>
                 (SeenFor(key) # <<>> /\ heap[SeenFor(key)[1]].type \in InsertTypes)
            /\ key \in SeqRange(del) <=>
                 (SeenFor(key) # <<>> /\ heap[SeenFor(key)[1]].type \in DeleteTypes)

\* ------------------------------------------------ the key of a split delta
\* C40: every split delta reachable from a mapping-table slot, leaf or inner,
\* has a split key inside the range of the node beneath it (low <= key <
\* high of that node), so that no split delta widens a node's range.
C40_SplitKeyInRange ==
  \A d \in SlotReach(heap, mapping_table) :
    heap[d].type \in SplitTypes =>
      /\ heap[d].t1.inf = FALSE
      /\ InRange(heap, heap[d].next_node_p, heap[d].t1.key)

====
